---------------------------- MODULE Spec2Model ----------------------------
(***************************************************************************)
(* A model of the text-chunking core of ai-nexus (package textsplitter):   *)
(* SentenceSplitter (recursive split + greedy merge + post-processing)     *)
(* and ParagraphSplitter (byte-bounded paragraph packing).                 *)
(*                                                                         *)
(* A text is a sequence of characters; a character is a one-character      *)
(* string.  Sizes are integers.  Every SplitText call is a small process:  *)
(* its locals (leaf list, accumulator, loop index) are per-call variables  *)
(* and its position is pc.                                                 *)
(***************************************************************************)
EXTENDS Integers, Sequences, FiniteSets, TLC

(***************************************************************************)
(* Bounds of the model.                                                    *)
(***************************************************************************)
MaxLen == 4          \* longest input text of a SentenceSplitter call
ChunkSizeBound == 2    \* largest ChunkSize a splitter is constructed with
MaxOverlap == 2      \* largest ChunkOverlap a splitter is constructed with
MaxConcLen == 3      \* longest input text of a call in the concurrent specification
MaxParaLen == 5      \* longest input text of a ParagraphSplitter call
ParaSizeBound == 3   \* largest MaxChunkSize a ParagraphSplitter is constructed with
MaxDocLen == 3       \* longest text of a document handed to the RAGSystem
MaxDocs == 2         \* most documents a directory read returns
MaxGoroutines == 2   \* goroutines that share one http Client
MaxConfigs == 2      \* most configurations in an OptionalConfig
MaxQueries == 2      \* most Query calls made on the RAGSystem

(***************************************************************************)
(* Characters.  "a" is a letter, "." sentence punctuation, " " and "\n"    *)
(* whitespace, "W" a character outside the tokenizer vocabulary's          *)
(* single-token range (an emoji, a rare CJK grapheme).                     *)
(***************************************************************************)
Letter == "a"
Wide == "W"
Alphabet == {Letter, Wide, ".", " ", "\n"}
ConcAlphabet == {Letter, " "}
ParaAlphabet == {Letter, Wide, " ", "\n"}
DocAlphabet == {Letter, " "}

RECURSIVE TextsUpTo(_, _)
TextsUpTo(alphabet, n) ==
    IF n = 0 THEN {<<>>}
    ELSE LET shorter == TextsUpTo(alphabet, n - 1)
         IN  shorter \cup {Append(t, c) : t \in {s \in shorter : Len(s) = n - 1}, c \in alphabet}

Texts == TextsUpTo(Alphabet, MaxLen)
ConcTexts == TextsUpTo(ConcAlphabet, MaxConcLen)
ParaTexts == TextsUpTo(ParaAlphabet, MaxParaLen)
DocTexts == TextsUpTo(DocAlphabet, MaxDocLen)

\* unicode.IsSpace on the model's characters (strings.Fields, strings.TrimSpace)
IsSpace(c) == c \in {" ", "\n"}

\* the punctuation class of DefaultChunkingRegex
IsPunct(c) == c \in {".", ",", ";"}

RECURSIVE Concat(_)
Concat(seqOfTexts) ==
    IF seqOfTexts = <<>> THEN <<>>
    ELSE Head(seqOfTexts) \o Concat(Tail(seqOfTexts))

RECURSIVE SumSeq(_)
SumSeq(ints) == IF ints = <<>> THEN 0 ELSE Head(ints) + SumSeq(Tail(ints))

IsPrefixOf(p, t) == Len(p) <= Len(t) /\ SubSeq(t, 1, Len(p)) = p
IsSuffixOf(s, t) == Len(s) <= Len(t) /\ SubSeq(t, Len(t) - Len(s) + 1, Len(t)) = s

(***************************************************************************)
(* Package constants (sentence_splitter.go, const block).                  *)
(***************************************************************************)
DefaultChunkSize == 1024
DefaultChunkOverlap == 200
DefaultParagraphSep == <<"\n", "\n", "\n">>
DefaultSeparator == <<" ">>

(***************************************************************************)
(* Tokenizers.  SimpleTokenizer.Encode is strings.Fields: one token per    *)
(* maximal run of non-space characters.  TikTokenTokenizer.Encode hands    *)
(* the text to the vocabulary encoder; the vocabulary is abstracted to a   *)
(* per-character token cost: one token per ordinary character, two         *)
(* tokens for the wide character.                                          *)
(***************************************************************************)
RECURSIVE FieldsFrom(_, _, _)
\* strings.Fields(text) from position i; cur is the field being read
FieldsFrom(text, i, cur) ==
    IF i > Len(text) THEN (IF cur = <<>> THEN <<>> ELSE <<cur>>)
    ELSE IF IsSpace(text[i])
         THEN (IF cur = <<>> THEN <<>> ELSE <<cur>>) \o FieldsFrom(text, i + 1, <<>>)
         ELSE FieldsFrom(text, i + 1, Append(cur, text[i]))

SimpleTokenizerEncode(text) == FieldsFrom(text, 1, <<>>)

RECURSIVE TikTokenEncode(_)
TikTokenEncode(text) ==
    IF text = <<>> THEN <<>>
    ELSE (IF Head(text) = Wide THEN <<(<<Wide>>), (<<Wide>>)>> ELSE <<(<<Head(text)>>)>>)
         \o TikTokenEncode(Tail(text))

Tokenizers == {"simple", "tiktoken"}

Encode(tok, text) ==
    IF tok = "simple" THEN SimpleTokenizerEncode(text) ELSE TikTokenEncode(text)

getTokenSize(tok, text) == Len(Encode(tok, text))

(***************************************************************************)
(* Split functions.  Their source is not part of the tree at hand; they    *)
(* are modelled from the design document: a separator split that keeps     *)
(* the separator at the head of the following piece and drops empty        *)
(* pieces, the matches of the chunking regex                               *)
(*   [^,.;]+[,.;]?|[,.;]                                                   *)
(* and a split into single characters.                                     *)
(***************************************************************************)
SepAt(sep, text, i) ==
    /\ i + Len(sep) - 1 <= Len(text)
    /\ SubSeq(text, i, i + Len(sep) - 1) = sep

RECURSIVE SepScan(_, _, _, _)
\* pieces of text from position s on; i is the scan position
SepScan(sep, text, s, i) ==
    IF i > Len(text) THEN <<SubSeq(text, s, Len(text))>>
    ELSE IF SepAt(sep, text, i)
         THEN <<SubSeq(text, s, i - 1)>> \o SepScan(sep, text, i, i + Len(sep))
         ELSE SepScan(sep, text, s, i + 1)

SplitBySep(sep, text) == SelectSeq(SepScan(sep, text, 1, 1), LAMBDA piece : piece # <<>>)

RECURSIVE RegexScan(_, _, _)
\* all matches of the chunking regex from position i on; cur is the run of
\* non-punctuation characters matched so far
RegexScan(text, i, cur) ==
    IF i > Len(text) THEN (IF cur = <<>> THEN <<>> ELSE <<cur>>)
    ELSE IF IsPunct(text[i])
         THEN <<Append(cur, text[i])>> \o RegexScan(text, i + 1, <<>>)
         ELSE RegexScan(text, i + 1, Append(cur, text[i]))

SplitByRegex(text) == RegexScan(text, 1, <<>>)

\* RegexSplitterStrategy.Split: the regex matches, or the text itself when
\* nothing matches (a segment sequence has length >= 1)
StrategySplit(text) ==
    LET matches == SplitByRegex(text)
    IN  IF matches = <<>> THEN <<text>> ELSE matches

SplitByChar(text) == [i \in 1..Len(text) |-> <<text[i]>>]

(***************************************************************************)
(* SentenceSplitter.getSplitsByFns: the first primary function            *)
(* (_splitFns) that yields more than one piece, tagged true; otherwise     *)
(* the first sub-sentence function (_subSentenceSplitFns) that does,       *)
(* or the result of the last one, tagged false.                            *)
(***************************************************************************)
\* getSplitsByFns that tries the word separator before the sentence strategy
getSplitsByFnsWordFirst(text) ==
    LET byParagraph == SplitBySep(DefaultParagraphSep, text)
        byStrategy == StrategySplit(text)
        byRegex == SplitByRegex(text)
        bySeparator == SplitBySep(DefaultSeparator, text)
    IN  IF Len(byParagraph) > 1 THEN [splits |-> byParagraph, isSentence |-> TRUE]
        ELSE IF Len(bySeparator) > 1 THEN [splits |-> bySeparator, isSentence |-> FALSE]
        ELSE IF Len(byStrategy) > 1 THEN [splits |-> byStrategy, isSentence |-> TRUE]
        ELSE IF Len(byRegex) > 1 THEN [splits |-> byRegex, isSentence |-> FALSE]
        ELSE [splits |-> SplitByChar(text), isSentence |-> FALSE]

getSplitsByFns(text) ==
    LET byParagraph == SplitBySep(DefaultParagraphSep, text)
        byStrategy == StrategySplit(text)
        byRegex == SplitByRegex(text)
        bySeparator == SplitBySep(DefaultSeparator, text)
    IN  IF Len(byParagraph) > 1 THEN [splits |-> byParagraph, isSentence |-> TRUE]
        ELSE IF Len(byStrategy) > 1 THEN [splits |-> byStrategy, isSentence |-> TRUE]
        ELSE IF Len(byRegex) > 1 THEN [splits |-> byRegex, isSentence |-> FALSE]
        ELSE IF Len(bySeparator) > 1 THEN [splits |-> bySeparator, isSentence |-> FALSE]
        ELSE [splits |-> SplitByChar(text), isSentence |-> FALSE]

(***************************************************************************)
(* SentenceSplitter.split.  The result is [ok, leaves].  ok = FALSE is     *)
(* the call that never returns: split calls itself on a piece equal to     *)
(* its own argument (a pure function called again with the same            *)
(* arguments), and the Go runtime ends the program with a stack            *)
(* overflow.                                                               *)
(***************************************************************************)
Leaf(text, isSentence, tokenSize) ==
    [text |-> text, isSentence |-> isSentence, tokenSize |-> tokenSize]

RECURSIVE split(_, _, _)
RECURSIVE splitPieces(_, _, _, _, _, _)

\* the for loop of split over textSplitsByFns, from piece i on
splitPieces(tok, text, pieces, isSentence, chunkSize, i) ==
    IF i > Len(pieces) THEN [ok |-> TRUE, leaves |-> <<>>]
    ELSE LET splitStr == pieces[i]
             tokenSize == getTokenSize(tok, splitStr)
             here == IF tokenSize <= chunkSize
                         THEN [ok |-> TRUE, leaves |-> <<Leaf(splitStr, isSentence, tokenSize)>>]
                     ELSE IF splitStr = text
                         THEN [ok |-> FALSE, leaves |-> <<>>]
                     ELSE split(tok, splitStr, chunkSize)
         IN  IF ~here.ok THEN [ok |-> FALSE, leaves |-> <<>>]
             ELSE LET rest == splitPieces(tok, text, pieces, isSentence, chunkSize, i + 1)
                  IN  IF ~rest.ok THEN [ok |-> FALSE, leaves |-> <<>>]
                      ELSE [ok |-> TRUE, leaves |-> here.leaves \o rest.leaves]

\* split that keeps only the pieces that fit and never descends into the others
splitFlat(tok, text, chunkSize) ==
    LET tokenSize == getTokenSize(tok, text)
        r == getSplitsByFns(text)
        fits == SelectSeq(r.splits, LAMBDA piece : getTokenSize(tok, piece) <= chunkSize)
    IN  IF tokenSize <= chunkSize
            THEN [ok |-> TRUE, leaves |-> <<Leaf(text, TRUE, tokenSize)>>]
            ELSE [ok |-> TRUE,
                  leaves |-> [i \in 1..Len(fits) |->
                                 Leaf(fits[i], r.isSentence, getTokenSize(tok, fits[i]))]]

split(tok, text, chunkSize) ==
    LET tokenSize == getTokenSize(tok, text)
    IN  IF tokenSize <= chunkSize
            THEN [ok |-> TRUE, leaves |-> <<Leaf(text, TRUE, tokenSize)>>]
        ELSE LET r == getSplitsByFns(text)
             IN  splitPieces(tok, text, r.splits, r.isSentence, chunkSize, 1)

(***************************************************************************)
(* strings.TrimSpace and SentenceSplitter.postprocessChunks.               *)
(***************************************************************************)
RECURSIVE TrimLeft(_)
TrimLeft(text) ==
    IF text # <<>> /\ IsSpace(Head(text)) THEN TrimLeft(Tail(text)) ELSE text

RECURSIVE TrimRight(_)
TrimRight(text) ==
    IF text # <<>> /\ IsSpace(text[Len(text)])
        THEN TrimRight(SubSeq(text, 1, Len(text) - 1))
        ELSE text

TrimSpace(text) == TrimRight(TrimLeft(text))

\* postprocessChunks that trims and keeps the chunks that trimming empties
postprocessKeepEmpty(chunks) == [i \in 1..Len(chunks) |-> TrimSpace(chunks[i])]

\* postprocessChunks that drops the blank chunks and returns the others untrimmed
postprocessNoTrim(chunks) == SelectSeq(chunks, LAMBDA chunk : TrimSpace(chunk) # <<>>)

RECURSIVE postprocessChunks(_)
postprocessChunks(chunks) ==
    IF chunks = <<>> THEN <<>>
    ELSE LET stripped == TrimSpace(Head(chunks))
         IN  (IF stripped = <<>> THEN <<>> ELSE <<stripped>>)
             \o postprocessChunks(Tail(chunks))

(***************************************************************************)
(* ParagraphSplitter.  len(string) is the byte length of the UTF-8         *)
(* encoding: the wide character is encoded in three bytes, every other     *)
(* character of the model in one.                                          *)
(***************************************************************************)
Utf8Len(c) == IF c = Wide THEN 3 ELSE 1

ByteLen(t) == SumSeq([i \in 1..Len(t) |-> Utf8Len(t[i])])

ParagraphSeparator == <<"\n">>

RECURSIVE StringsSplit(_, _, _, _)
\* strings.Split(t, sep) from position i on; s is where the current piece starts
StringsSplit(sep, t, s, i) ==
    IF i > Len(t) THEN <<SubSeq(t, s, Len(t))>>
    ELSE IF SepAt(sep, t, i)
         THEN <<SubSeq(t, s, i - 1)>> \o StringsSplit(sep, t, i + Len(sep), i + Len(sep))
         ELSE StringsSplit(sep, t, s, i + 1)

RECURSIVE StringsJoin(_, _)
StringsJoin(parts, sep) ==
    IF parts = <<>> THEN <<>>
    ELSE IF Len(parts) = 1 THEN parts[1]
    ELSE parts[1] \o sep \o StringsJoin(Tail(parts), sep)

\* step 1 of SplitText without the test that drops blank paragraphs
trimmedParagraphsKeepBlank(t) ==
    LET rawParagraphs == StringsSplit(ParagraphSeparator, t, 1, 1)
    IN  [i \in 1..Len(rawParagraphs) |-> TrimSpace(rawParagraphs[i])]

\* step 1 of SplitText: the trimmed, non-blank paragraphs of the text
trimmedParagraphs(t) ==
    LET rawParagraphs == StringsSplit(ParagraphSeparator, t, 1, 1)
        trimmed == [i \in 1..Len(rawParagraphs) |-> TrimSpace(rawParagraphs[i])]
    IN  SelectSeq(trimmed, LAMBDA para : para # <<>>)

RECURSIVE takeRunes(_, _, _, _)
\* the inner loop of splitOversizedParagraph: how many of chunkRunes fit
takeRunes(chunkRunes, i, count, maxChunkSize) ==
    IF i > Len(chunkRunes) \/ count + Utf8Len(chunkRunes[i]) > maxChunkSize
        THEN i - 1
        ELSE takeRunes(chunkRunes, i + 1, count + Utf8Len(chunkRunes[i]), maxChunkSize)

RECURSIVE splitOversizedByRunes(_, _)
\* splitOversizedParagraph that counts code points where it should count bytes
splitOversizedByRunes(runes, maxChunkSize) ==
    IF runes = <<>> THEN <<>>
    ELSE LET take == IF Len(runes) < maxChunkSize THEN Len(runes) ELSE maxChunkSize
         IN  <<SubSeq(runes, 1, take)>>
             \o splitOversizedByRunes(SubSeq(runes, take + 1, Len(runes)), maxChunkSize)

RECURSIVE splitOversizedParagraph(_, _)
splitOversizedParagraph(runes, maxChunkSize) ==
    IF runes = <<>> THEN <<>>
    ELSE LET fit == takeRunes(runes, 1, 0, maxChunkSize)
             take == IF fit = 0 THEN 1 ELSE fit
         IN  <<SubSeq(runes, 1, take)>>
             \o splitOversizedParagraph(SubSeq(runes, take + 1, Len(runes)), maxChunkSize)

\* the locals of SplitText at the entry of the paragraph loop; emitted
\* records, for every emitted chunk, its paragraphs and whether the first
\* of them is the overlap paragraph (inherit); both are bookkeeping of
\* the model
paraLocals(paragraphs) ==
    [paragraphs |-> paragraphs, next |-> 1, subParts |-> <<>>, nextSub |-> 1,
     chunks |-> <<>>, currentChunk |-> <<>>, currentSize |-> 0,
     inherit |-> FALSE, emitted |-> <<>>]

\* chunks = append(chunks, strings.Join(currentChunk, s.Separator))
emitCurrent(l) ==
    [l EXCEPT !.chunks = Append(l.chunks, StringsJoin(l.currentChunk, ParagraphSeparator)),
              !.emitted = Append(l.emitted, [paras |-> l.currentChunk, inherit |-> l.inherit])]

\* the overlap rule that keeps the overlap paragraph whatever its size
restartKeepingOverlap(l, unit, maxChunkSize) ==
    LET lastPara == l.currentChunk[Len(l.currentChunk)]
    IN  [emitCurrent(l) EXCEPT !.currentChunk = <<lastPara, unit>>,
                               !.currentSize = ByteLen(lastPara) + Len(ParagraphSeparator)
                                               + ByteLen(unit),
                               !.inherit = TRUE]

\* the current chunk is emitted and the next one starts with the overlap
\* paragraph and the unit, or with the unit alone when both do not fit
restartWithOverlap(l, unit, maxChunkSize) ==
    LET lastPara == l.currentChunk[Len(l.currentChunk)]
        overlapSize == ByteLen(lastPara) + Len(ParagraphSeparator) + ByteLen(unit)
    IN  IF overlapSize > maxChunkSize
            THEN [emitCurrent(l) EXCEPT !.currentChunk = <<unit>>,
                                        !.currentSize = ByteLen(unit),
                                        !.inherit = FALSE]
            ELSE [emitCurrent(l) EXCEPT !.currentChunk = <<lastPara, unit>>,
                                        !.currentSize = overlapSize,
                                        !.inherit = TRUE]

\* normal paragraph handling that adds the paragraph to the current chunk
\* without counting the separator
normalParagraphNoSeparator(l, para, maxChunkSize) ==
    LET addedSize == ByteLen(para)
                     + (IF Len(l.currentChunk) > 0 THEN Len(ParagraphSeparator) ELSE 0)
    IN  IF l.currentSize + addedSize > maxChunkSize
            THEN IF Len(l.currentChunk) > 0
                     THEN restartWithOverlap(l, para, maxChunkSize)
                     ELSE [emitCurrent(l) EXCEPT !.currentChunk = <<para>>,
                                                 !.currentSize = ByteLen(para),
                                                 !.inherit = FALSE]
            ELSE [l EXCEPT !.currentChunk = Append(l.currentChunk, para),
                           !.currentSize = l.currentSize + ByteLen(para)]

\* normal paragraph handling: one iteration of the paragraph loop for a
\* paragraph of at most maxChunkSize bytes
normalParagraph(l, para, maxChunkSize) ==
    LET addedSize == ByteLen(para)
                     + (IF Len(l.currentChunk) > 0 THEN Len(ParagraphSeparator) ELSE 0)
    IN  IF l.currentSize + addedSize > maxChunkSize
            THEN IF Len(l.currentChunk) > 0
                     THEN restartWithOverlap(l, para, maxChunkSize)
                     ELSE [emitCurrent(l) EXCEPT !.currentChunk = <<para>>,
                                                 !.currentSize = ByteLen(para),
                                                 !.inherit = FALSE]
            ELSE [l EXCEPT !.currentChunk = Append(l.currentChunk, para),
                           !.currentSize = l.currentSize + addedSize]

\* the head of the oversized branch: flush the current chunk, keep its last
\* paragraph as overlap, split the paragraph
oversizedParagraph(l, para, maxChunkSize) ==
    LET flushed == IF Len(l.currentChunk) > 0
                       THEN [emitCurrent(l) EXCEPT
                                !.currentChunk = <<l.currentChunk[Len(l.currentChunk)]>>,
                                !.currentSize = ByteLen(l.currentChunk[Len(l.currentChunk)]),
                                !.inherit = TRUE]
                       ELSE l
    IN  [flushed EXCEPT !.subParts = splitOversizedParagraph(para, maxChunkSize),
                        !.nextSub = 1]

\* one iteration of the loop over subParts
subPart(l, subP, maxChunkSize) ==
    IF l.currentSize + ByteLen(subP) + Len(ParagraphSeparator) > maxChunkSize
        THEN IF Len(l.currentChunk) > 0
                 THEN restartWithOverlap(l, subP, maxChunkSize)
                 ELSE [l EXCEPT !.currentChunk = <<subP>>,
                                !.currentSize = ByteLen(subP),
                                !.inherit = FALSE]
        ELSE [l EXCEPT !.currentChunk = Append(l.currentChunk, subP),
                       !.currentSize = l.currentSize + ByteLen(subP)
                                       + (IF Len(l.currentChunk) > 0
                                              THEN Len(ParagraphSeparator) ELSE 0)]

(***************************************************************************)
(* State.  ChunkSize, ChunkOverlap and Tokenizer are the fields of the one *)
(* constructed SentenceSplitter.  The other variables are the locals of    *)
(* the SplitText calls, one entry per calling goroutine:                   *)
(*   pc      position of the call: idle, merge (in the loop of merge),     *)
(*           done (returned), stack_overflow (split never returned),       *)
(*           panic (the invariant panic of merge)                          *)
(*   text    the argument of the call                                      *)
(*   splits  the leaf list split returned                                  *)
(*   acc     the locals of merge: chunks, curChunk, lastChunk,             *)
(*           curChunkLen, newChunk, splitIdx; chunkItems records, for      *)
(*           every emitted chunk, the buffer items it was built from, and  *)
(*           the idx field of an item is the position of its leaf in       *)
(*           splits (both are bookkeeping of the model).                   *)
(*   result  what the call returned                                        *)
(*                                                                         *)
(* MaxChunkSize is the field of the one constructed ParagraphSplitter;     *)
(* ppc, ptext, plocals and presult are the position (idle, loop, sub,      *)
(* done), the argument, the locals and the result of its SplitText call.   *)
(***************************************************************************)
VARIABLES ChunkSize, ChunkOverlap, Tokenizer, pc, text, splits, acc, result,
          MaxChunkSize, ppc, ptext, plocals, presult

sentenceVars == <<ChunkSize, ChunkOverlap, Tokenizer, pc, text, splits, acc, result>>
paragraphVars == <<MaxChunkSize, ppc, ptext, plocals, presult>>

(***************************************************************************)
(* The RAGSystem (rag/v2).  Embedder, LLM, VectorStore, QueryEngine and    *)
(* Callbacks are its fields; its Splitter is the SentenceSplitter above.   *)
(* A component is a name, Nil when it was not injected; Callbacks is the   *)
(* set of the handlers that are not nil.  stored is the content of every   *)
(* vector store.  An ingestion call is a process:                          *)
(*   ipc      idle, docs (at the head of the loop over the documents),     *)
(*            chunks (at the head of the loop over the chunks), done,      *)
(*            crash (SplitText did not return)                             *)
(*   ilocals  entry (the method called), totalDocs, docIdx, docs (the      *)
(*            texts of the documents the loop has reached), chunks, i,     *)
(*            allNodes                                                     *)
(*   ievents  the calls made so far on the handlers, the embedder and the  *)
(*            vector store, and the Query calls, in order (bookkeeping of  *)
(*            the model)                                                   *)
(*   ireturn  the error returned: Pending before the return, NoError for   *)
(*            nil                                                          *)
(***************************************************************************)
VARIABLES Embedder, LLM, VectorStore, QueryEngine, Callbacks, stored,
          ipc, ilocals, ievents, ireturn

ragVars == <<Embedder, LLM, VectorStore, QueryEngine, Callbacks, stored,
             ipc, ilocals, ievents, ireturn>>

(***************************************************************************)
(* The http Client (package http).  ctimeout and cclient are its fields    *)
(* timeout and client; cclient is NoClient while the field is nil, and an  *)
(* http.Client is its identity (the number of its creation) and its        *)
(* Timeout.  onceDone and onceMutex are the done flag and the mutex of     *)
(* clientOnce (sync.Once); onceMutex is the goroutine that holds it, 0     *)
(* when free.  created counts the http.Clients created.  Per goroutine:    *)
(*   gpc    idle, once (in Once.Do, before the load of done), lock (in     *)
(*          doSlow, waiting for the mutex), init (holding the mutex,       *)
(*          before f), store (f has run), read (before return c.client),   *)
(*          set (in WithTimeout, after the test of c.client)               *)
(*   gcall  the call in progress or the last one: its method, its          *)
(*          argument, and whether the http.Client existed when it began    *)
(*          (bookkeeping of the model)                                     *)
(*   gret   what the last calls returned: the http.Client of getClient     *)
(*          and the Client of WithTimeout                                  *)
(***************************************************************************)
VARIABLES ctimeout, cclient, onceDone, onceMutex, created, gpc, gcall, gret

clientVars == <<ctimeout, cclient, onceDone, onceMutex, created, gpc, gcall, gret>>

(***************************************************************************)
(* LLM configuration (llm/models).  environ is the process environment,    *)
(* a value for every variable name the program can ask for (the empty      *)
(* string when unset); optionalConfig is the OptionalConfig GetConfig is   *)
(* called on, given its content at the call (GetConfig writes into its     *)
(* element); cfgProvider and cfgReturn are the argument and the result     *)
(* of the call, cfgpc its position (idle, done).                           *)
(***************************************************************************)
VARIABLES environ, optionalConfig, given, cfgProvider, cfgReturn, cfgpc

\* newCall is the NewSentenceSplitter call that constructed the splitter:
\* its arguments and the splitter it returned (bookkeeping of the model)
VARIABLE newCall

configVars == <<environ, optionalConfig, given, cfgProvider, cfgReturn, cfgpc>>

\* what the steps of a SentenceSplitter call leave alone
notSentence == <<paragraphVars, ragVars, clientVars, configVars, newCall>>
\* what the steps of a ParagraphSplitter call leave alone
notParagraph == <<sentenceVars, ragVars, clientVars, configVars, newCall>>
\* what the steps of the RAGSystem leave alone: the splitter is only read
notRag == <<sentenceVars, paragraphVars, clientVars, configVars, newCall>>
\* what the steps on the http Client leave alone
notClient == <<sentenceVars, paragraphVars, ragVars, configVars, newCall>>
\* what GetConfig leaves alone
notConfig == <<sentenceVars, paragraphVars, ragVars, clientVars, newCall>>

Procs == {1, 2}

\* the locals of merge as declared at its entry
mergeLocals ==
    [chunks |-> <<>>, chunkItems |-> <<>>, curChunk |-> <<>>, lastChunk |-> <<>>,
     curChunkLen |-> 0, newChunk |-> TRUE, splitIdx |-> 0]

bufItem(itemText, itemLen, idx) == [text |-> itemText, len |-> itemLen, idx |-> idx]

itemsText(items) == Concat([i \in 1..Len(items) |-> items[i].text])
itemsLen(items) == SumSeq([i \in 1..Len(items) |-> items[i].len])

RECURSIVE overlapFrom(_, _, _, _, _)
\* the overlap loop of closeChunk: walk lastChunk backwards from lastIndex
overlapFrom(lastChunk, lastIndex, curChunk, curChunkLen, chunkOverlap) ==
    IF lastIndex >= 1 /\ curChunkLen + lastChunk[lastIndex].len <= chunkOverlap
        THEN overlapFrom(lastChunk, lastIndex - 1, <<lastChunk[lastIndex]>> \o curChunk,
                         curChunkLen + lastChunk[lastIndex].len, chunkOverlap)
        ELSE [curChunk |-> curChunk, curChunkLen |-> curChunkLen]

\* closeChunk that carries the last item over whatever the overlap budget
closeChunkLastItem(m, chunkOverlap) ==
    [m EXCEPT !.chunks = Append(m.chunks, itemsText(m.curChunk)),
              !.chunkItems = Append(m.chunkItems, m.curChunk),
              !.lastChunk = m.curChunk,
              !.curChunk = <<m.curChunk[Len(m.curChunk)]>>,
              !.curChunkLen = m.curChunk[Len(m.curChunk)].len,
              !.newChunk = TRUE]

\* closeChunk that carries over at most one leaf
closeChunkOneLeaf(m, chunkOverlap) ==
    LET last == m.curChunk[Len(m.curChunk)]
        fits == last.len <= chunkOverlap
    IN  [m EXCEPT !.chunks = Append(m.chunks, itemsText(m.curChunk)),
                  !.chunkItems = Append(m.chunkItems, m.curChunk),
                  !.lastChunk = m.curChunk,
                  !.curChunk = IF fits THEN <<last>> ELSE <<>>,
                  !.curChunkLen = IF fits THEN last.len ELSE 0,
                  !.newChunk = TRUE]

\* closeChunk: emit the accumulator, reopen it with the overlap
closeChunk(m, chunkOverlap) ==
    LET ov == overlapFrom(m.curChunk, Len(m.curChunk), <<>>, 0, chunkOverlap)
    IN  [m EXCEPT !.chunks = Append(m.chunks, itemsText(m.curChunk)),
                  !.chunkItems = Append(m.chunkItems, m.curChunk),
                  !.lastChunk = m.curChunk,
                  !.curChunk = ov.curChunk,
                  !.curChunkLen = ov.curChunkLen,
                  !.newChunk = TRUE]

\* an eviction that empties the accumulator when the leaf does not fit
evictAll(curChunk, curChunkLen, tokenSize, chunkSize) ==
    IF Len(curChunk) > 0 /\ curChunkLen + tokenSize > chunkSize
        THEN [curChunk |-> <<>>, curChunkLen |-> 0]
        ELSE [curChunk |-> curChunk, curChunkLen |-> curChunkLen]

RECURSIVE evictFront(_, _, _, _)
\* the pop-from-front loop of merge
evictFront(curChunk, curChunkLen, tokenSize, chunkSize) ==
    IF Len(curChunk) > 0 /\ curChunkLen + tokenSize > chunkSize
        THEN evictFront(Tail(curChunk), curChunkLen - Head(curChunk).len, tokenSize, chunkSize)
        ELSE [curChunk |-> curChunk, curChunkLen |-> curChunkLen]

\* an iteration of merge that never evicts the inherited overlap
mergeIterationNoEvict(m, leaves, chunkSize, chunkOverlap) ==
    LET curSplit == leaves[m.splitIdx + 1]
    IN  IF m.curChunkLen + curSplit.tokenSize > chunkSize /\ ~m.newChunk
            THEN closeChunk(m, chunkOverlap)
            ELSE [m EXCEPT !.curChunkLen = m.curChunkLen + curSplit.tokenSize,
                           !.curChunk = Append(m.curChunk,
                               bufItem(curSplit.text, curSplit.tokenSize, m.splitIdx + 1)),
                           !.splitIdx = m.splitIdx + 1,
                           !.newChunk = FALSE]

\* an iteration of merge that closes the chunk whenever the leaf does not
\* fit, whether or not the chunk was just opened
mergeIterationCloseWhenFull(m, leaves, chunkSize, chunkOverlap) ==
    LET curSplit == leaves[m.splitIdx + 1]
    IN  IF m.curChunkLen + curSplit.tokenSize > chunkSize
            THEN closeChunk(m, chunkOverlap)
            ELSE [m EXCEPT !.curChunkLen = m.curChunkLen + curSplit.tokenSize,
                           !.curChunk = Append(m.curChunk,
                               bufItem(curSplit.text, curSplit.tokenSize, m.splitIdx + 1)),
                           !.splitIdx = m.splitIdx + 1,
                           !.newChunk = FALSE]

\* an iteration of merge that appends a sentence leaf to the chunk at hand
\* whether it fits or not
mergeIterationForceSentence(m, leaves, chunkSize, chunkOverlap) ==
    LET curSplit == leaves[m.splitIdx + 1]
    IN  IF m.curChunkLen + curSplit.tokenSize > chunkSize /\ ~m.newChunk
           /\ ~curSplit.isSentence
            THEN closeChunk(m, chunkOverlap)
        ELSE LET ev == IF m.newChunk /\ m.curChunkLen + curSplit.tokenSize > chunkSize
                           THEN evictFront(m.curChunk, m.curChunkLen, curSplit.tokenSize, chunkSize)
                           ELSE [curChunk |-> m.curChunk, curChunkLen |-> m.curChunkLen]
             IN  [m EXCEPT !.curChunkLen = ev.curChunkLen + curSplit.tokenSize,
                           !.curChunk = Append(ev.curChunk,
                               bufItem(curSplit.text, curSplit.tokenSize, m.splitIdx + 1)),
                           !.splitIdx = m.splitIdx + 1,
                           !.newChunk = FALSE]

\* one iteration of the loop of merge whose leaf fits chunkSize
mergeIteration(m, leaves, chunkSize, chunkOverlap) ==
    LET curSplit == leaves[m.splitIdx + 1]
    IN  IF m.curChunkLen + curSplit.tokenSize > chunkSize /\ ~m.newChunk
            THEN closeChunk(m, chunkOverlap)
        ELSE LET ev == IF m.newChunk /\ m.curChunkLen + curSplit.tokenSize > chunkSize
                           THEN evictFront(m.curChunk, m.curChunkLen, curSplit.tokenSize, chunkSize)
                           ELSE [curChunk |-> m.curChunk, curChunkLen |-> m.curChunkLen]
             IN  IF curSplit.isSentence \/ ev.curChunkLen + curSplit.tokenSize <= chunkSize
                    \/ m.newChunk
                     THEN [m EXCEPT !.curChunkLen = ev.curChunkLen + curSplit.tokenSize,
                                    !.curChunk = Append(ev.curChunk,
                                        bufItem(curSplit.text, curSplit.tokenSize, m.splitIdx + 1)),
                                    !.splitIdx = m.splitIdx + 1,
                                    !.newChunk = FALSE]
                     ELSE closeChunk([m EXCEPT !.curChunk = ev.curChunk,
                                               !.curChunkLen = ev.curChunkLen], chunkOverlap)

\* an end of merge that emits the last accumulator only if it holds more
\* than the leaves inherited from the chunk before
mergeTailNewOnly(m) ==
    IF ~m.newChunk /\ (m.chunkItems = <<>> \/ Len(m.curChunk) > 1)
        THEN [m EXCEPT !.chunks = Append(m.chunks, itemsText(m.curChunk)),
                       !.chunkItems = Append(m.chunkItems, m.curChunk)]
        ELSE m

\* the end of merge: the last accumulator is emitted unless it was just opened
mergeTail(m) ==
    IF ~m.newChunk
        THEN [m EXCEPT !.chunks = Append(m.chunks, itemsText(m.curChunk)),
                       !.chunkItems = Append(m.chunkItems, m.curChunk)]
        ELSE m

\* merge run from its entry to its return; the leaves all fit chunkSize
RECURSIVE mergeLoop(_, _, _, _)
mergeLoop(m, leaves, chunkSize, chunkOverlap) ==
    IF m.splitIdx < Len(leaves)
        THEN mergeLoop(mergeIteration(m, leaves, chunkSize, chunkOverlap),
                       leaves, chunkSize, chunkOverlap)
        ELSE mergeTail(m)

merge(leaves, chunkSize, chunkOverlap) ==
    mergeLoop(mergeLocals, leaves, chunkSize, chunkOverlap).chunks

\* splitText run alone, from call to end: how it ends and what it returns
splitText(tok, t, chunkSize, chunkOverlap) ==
    IF t = <<>> THEN [pc |-> "done", result |-> <<t>>]
    ELSE LET r == split(tok, t, chunkSize)
         IN  IF ~r.ok THEN [pc |-> "stack_overflow", result |-> <<>>]
             ELSE IF \E i \in 1..Len(r.leaves) : r.leaves[i].tokenSize > chunkSize
                 THEN [pc |-> "panic", result |-> <<>>]
             ELSE [pc |-> "done",
                   result |-> postprocessChunks(merge(r.leaves, chunkSize, chunkOverlap))]

\* one accumulator for all calls, as if it were a field of the splitter
accShared(p) == 1

\* the accumulator a call's merge works on: its own locals
accOf(p) == p

(***************************************************************************)
(* Actions of a SplitText call by goroutine p.                             *)
(***************************************************************************)
\* splitText without its test for the empty text
SplitTextNoEmptyTest(p, t) ==
    /\ pc[p] = "idle"
    /\ text' = [text EXCEPT ![p] = t]
    /\ LET r == split(Tokenizer, t, ChunkSize)
       IN  IF r.ok
             THEN /\ splits' = [splits EXCEPT ![p] = r.leaves]
                  /\ acc' = [acc EXCEPT ![accOf(p)] = mergeLocals]
                  /\ pc' = [pc EXCEPT ![p] = "merge"]
                  /\ UNCHANGED result
             ELSE /\ pc' = [pc EXCEPT ![p] = "stack_overflow"]
                  /\ UNCHANGED <<splits, acc, result>>
    /\ UNCHANGED <<ChunkSize, ChunkOverlap, Tokenizer, notSentence>>

\* SplitText / splitText up to the entry of merge
SplitText(p, t) ==
    /\ pc[p] = "idle"
    /\ text' = [text EXCEPT ![p] = t]
    /\ IF t = <<>>
          THEN /\ result' = [result EXCEPT ![p] = <<t>>]
               /\ pc' = [pc EXCEPT ![p] = "done"]
               /\ UNCHANGED <<splits, acc>>
          ELSE LET r == split(Tokenizer, t, ChunkSize)
               IN  IF r.ok
                     THEN /\ splits' = [splits EXCEPT ![p] = r.leaves]
                          /\ acc' = [acc EXCEPT ![accOf(p)] = mergeLocals]
                          /\ pc' = [pc EXCEPT ![p] = "merge"]
                          /\ UNCHANGED result
                     ELSE /\ pc' = [pc EXCEPT ![p] = "stack_overflow"]
                          /\ UNCHANGED <<splits, acc, result>>
    /\ UNCHANGED <<ChunkSize, ChunkOverlap, Tokenizer, notSentence>>

\* one iteration of the loop of merge
MergeStep(p) ==
    /\ pc[p] = "merge"
    /\ acc[accOf(p)].splitIdx < Len(splits[p])
    /\ IF splits[p][acc[accOf(p)].splitIdx + 1].tokenSize > ChunkSize
          THEN /\ pc' = [pc EXCEPT ![p] = "panic"]
               /\ UNCHANGED acc
          ELSE /\ acc' = [acc EXCEPT ![accOf(p)] =
                             mergeIteration(acc[accOf(p)], splits[p], ChunkSize, ChunkOverlap)]
               /\ UNCHANGED pc
    /\ UNCHANGED <<ChunkSize, ChunkOverlap, Tokenizer, text, splits, result, notSentence>>

\* the loop of merge is over: the tail of merge, then postprocessChunks
MergeReturn(p) ==
    /\ pc[p] = "merge"
    /\ acc[accOf(p)].splitIdx >= Len(splits[p])
    /\ acc' = [acc EXCEPT ![accOf(p)] = mergeTail(acc[accOf(p)])]
    /\ result' = [result EXCEPT ![p] = postprocessChunks(mergeTail(acc[accOf(p)]).chunks)]
    /\ pc' = [pc EXCEPT ![p] = "done"]
    /\ UNCHANGED <<ChunkSize, ChunkOverlap, Tokenizer, text, splits, notSentence>>

\* a nil pointer, a nil interface value
Nil == "nil"

\* NewSentenceSplitter: the fields of the splitter it returns
NewSentenceSplitter(chunkSize, chunkOverlap, tokenizer) ==
    [ChunkSize |-> IF chunkSize <= 0 THEN DefaultChunkSize ELSE chunkSize,
     ChunkOverlap |-> chunkOverlap,
     Separator |-> DefaultSeparator,
     ParagraphSeparator |-> DefaultParagraphSep,
     Tokenizer |-> IF tokenizer = Nil THEN "simple" ELSE tokenizer]

newSplitter(chunkSize, chunkOverlap, tokenizer) ==
    [made |-> TRUE, chunkSize |-> chunkSize, chunkOverlap |-> chunkOverlap,
     tokenizer |-> tokenizer,
     returned |-> NewSentenceSplitter(chunkSize, chunkOverlap, tokenizer)]

\* no NewSentenceSplitter call was made
noSplitter ==
    [made |-> FALSE, chunkSize |-> 0, chunkOverlap |-> 0, tokenizer |-> Nil,
     returned |-> [ChunkSize |-> 0, ChunkOverlap |-> 0, Separator |-> <<>>,
                   ParagraphSeparator |-> <<>>, Tokenizer |-> Nil]]

\* NewSentenceSplitter(chunkSize, chunkOverlap, tokenizer, nil): the
\* splitter is constructed and can be called
New(chunkSize, chunkOverlap, tokenizer) ==
    /\ \A p \in Procs : pc[p] = "new"
    /\ newCall' = newSplitter(chunkSize, chunkOverlap, tokenizer)
    /\ ChunkSize' = newCall'.returned.ChunkSize
    /\ ChunkOverlap' = newCall'.returned.ChunkOverlap
    /\ Tokenizer' = newCall'.returned.Tokenizer
    /\ pc' = [p \in Procs |-> "idle"]
    /\ UNCHANGED <<text, splits, acc, result, paragraphVars, ragVars, clientVars, configVars>>

\* no splitter is constructed yet
InitNew ==
    /\ newCall = noSplitter
    /\ ChunkSize = 0
    /\ ChunkOverlap = 0
    /\ Tokenizer = Nil
    /\ pc = [p \in Procs |-> "new"]
    /\ text = [p \in Procs |-> <<>>]
    /\ splits = [p \in Procs |-> <<>>]
    /\ acc = [p \in Procs |-> mergeLocals]
    /\ result = [p \in Procs |-> <<>>]

InitSentence ==
    /\ ChunkSize \in 1..ChunkSizeBound
    /\ ChunkOverlap \in 0..MaxOverlap
    /\ Tokenizer \in Tokenizers
    /\ newCall = newSplitter(ChunkSize, ChunkOverlap, Tokenizer)
    /\ pc = [p \in Procs |-> "idle"]
    /\ text = [p \in Procs |-> <<>>]
    /\ splits = [p \in Procs |-> <<>>]
    /\ acc = [p \in Procs |-> mergeLocals]
    /\ result = [p \in Procs |-> <<>>]

\* no ParagraphSplitter call is made
ParagraphIdle ==
    /\ MaxChunkSize = 1
    /\ ppc = "off"
    /\ ptext = <<>>
    /\ plocals = paraLocals(<<>>)
    /\ presult = <<>>

\* no SentenceSplitter call is made
SentenceIdle ==
    /\ ChunkSize = 1
    /\ ChunkOverlap = 0
    /\ Tokenizer = "simple"
    /\ newCall = noSplitter
    /\ pc = [p \in Procs |-> "off"]
    /\ text = [p \in Procs |-> <<>>]
    /\ splits = [p \in Procs |-> <<>>]
    /\ acc = [p \in Procs |-> mergeLocals]
    /\ result = [p \in Procs |-> <<>>]

(***************************************************************************)
(* Actions of the ParagraphSplitter.SplitText call.                        *)
(***************************************************************************)
\* SplitText up to the entry of the paragraph loop
ParaSplitText(t) ==
    /\ ppc = "idle"
    /\ ptext' = t
    /\ IF t = <<>> \/ trimmedParagraphs(t) = <<>>
          THEN /\ presult' = <<>>
               /\ ppc' = "done"
               /\ UNCHANGED plocals
          ELSE /\ plocals' = paraLocals(trimmedParagraphs(t))
               /\ ppc' = "loop"
               /\ UNCHANGED presult
    /\ UNCHANGED <<MaxChunkSize, notParagraph>>

\* an iteration of the paragraph loop on a paragraph that is not oversized
ParaNormal ==
    /\ ppc = "loop"
    /\ plocals.next <= Len(plocals.paragraphs)
    /\ ByteLen(plocals.paragraphs[plocals.next]) <= MaxChunkSize
    /\ plocals' = [normalParagraph(plocals, plocals.paragraphs[plocals.next], MaxChunkSize)
                      EXCEPT !.next = plocals.next + 1]
    /\ UNCHANGED <<MaxChunkSize, ppc, ptext, presult, notParagraph>>

\* an iteration of the paragraph loop on an oversized paragraph, up to the
\* loop over its sub-parts
ParaOversized ==
    /\ ppc = "loop"
    /\ plocals.next <= Len(plocals.paragraphs)
    /\ ByteLen(plocals.paragraphs[plocals.next]) > MaxChunkSize
    /\ plocals' = oversizedParagraph(plocals, plocals.paragraphs[plocals.next], MaxChunkSize)
    /\ ppc' = "sub"
    /\ UNCHANGED <<MaxChunkSize, ptext, presult, notParagraph>>

\* an iteration of the loop over the sub-parts; after the last one the
\* paragraph loop continues
ParaSubPart ==
    /\ ppc = "sub"
    /\ plocals.nextSub <= Len(plocals.subParts)
    /\ LET l == subPart(plocals, plocals.subParts[plocals.nextSub], MaxChunkSize)
       IN  IF plocals.nextSub = Len(plocals.subParts)
             THEN /\ plocals' = [l EXCEPT !.nextSub = plocals.nextSub + 1,
                                          !.next = plocals.next + 1]
                  /\ ppc' = "loop"
             ELSE /\ plocals' = [l EXCEPT !.nextSub = plocals.nextSub + 1]
                  /\ UNCHANGED ppc
    /\ UNCHANGED <<MaxChunkSize, ptext, presult, notParagraph>>

\* a return that leaves the remaining content out
ParaReturnNoRemainder ==
    /\ ppc = "loop"
    /\ plocals.next > Len(plocals.paragraphs)
    /\ presult' = plocals.chunks
    /\ ppc' = "done"
    /\ UNCHANGED <<MaxChunkSize, ptext, plocals, notParagraph>>

\* the paragraph loop is over: the remaining content is emitted
ParaReturn ==
    /\ ppc = "loop"
    /\ plocals.next > Len(plocals.paragraphs)
    /\ plocals' = (IF Len(plocals.currentChunk) > 0 THEN emitCurrent(plocals) ELSE plocals)
    /\ presult' = plocals'.chunks
    /\ ppc' = "done"
    /\ UNCHANGED <<MaxChunkSize, ptext, notParagraph>>

(***************************************************************************)
(* RAGSystem: construction, injection of the components, ingestion.        *)
(***************************************************************************)
Embedders == {"embedder1", "embedder2"}
LLMs == {"llm1"}
VectorStores == {"store1", "store2"}
CallbackNames == {"OnIngestStarted", "OnIngestProgress", "OnIngestCompleted", "OnIngestError"}

\* values of ireturn
Pending == "pending"
NoError == "no error"

\* NewRAGSystem: the defaults it sets on the configuration, and its splitter
NewRAGSystem(config) ==
    LET chunkSize == IF config.ChunkSize <= 0 THEN DefaultChunkSize ELSE config.ChunkSize
        chunkOverlap == IF config.ChunkOverlap <= 0 THEN DefaultChunkOverlap
                        ELSE config.ChunkOverlap
    IN  [Config |-> [ChunkSize |-> chunkSize, ChunkOverlap |-> chunkOverlap],
         Splitter |-> NewSentenceSplitter(chunkSize, chunkOverlap, Nil)]

\* the configurations the system is constructed with: a chunk size or none
\* (0), no overlap given
RagConfigs == {[ChunkSize |-> size, ChunkOverlap |-> 0] : size \in 0..ChunkSizeBound}

noQueryEngine == [set |-> FALSE, vectorStore |-> Nil, embedder |-> Nil, llm |-> Nil]

ingestLocals(entry, totalDocs) ==
    [entry |-> entry, totalDocs |-> totalDocs, docIdx |-> 0,
     chunks |-> <<>>, i |-> 0, allNodes |-> <<>>]

\* a handler is called when it is not nil
notify(events, name, event) ==
    IF name \in Callbacks THEN Append(events, event) ELSE events

\* the error bootstrap returns
bootstrapError ==
    IF Embedder = Nil THEN "embedding model is not initialized"
    ELSE IF LLM = Nil THEN "LLM is not initialized"
    ELSE IF VectorStore = Nil THEN "vector store is not initialized"
    ELSE NoError

\* the QueryEngine bootstrap leaves behind when it returns nil
bootstrapEngine ==
    IF QueryEngine.set THEN QueryEngine
    ELSE [set |-> TRUE, vectorStore |-> VectorStore, embedder |-> Embedder, llm |-> LLM]

InitRag ==
    /\ \E config \in RagConfigs :
         LET sys == NewRAGSystem(config)
         IN  /\ newCall = newSplitter(sys.Config.ChunkSize, sys.Config.ChunkOverlap, Nil)
             /\ ChunkSize = sys.Splitter.ChunkSize
             /\ ChunkOverlap = sys.Splitter.ChunkOverlap
             /\ Tokenizer = sys.Splitter.Tokenizer
    /\ pc = [p \in Procs |-> "off"]
    /\ text = [p \in Procs |-> <<>>]
    /\ splits = [p \in Procs |-> <<>>]
    /\ acc = [p \in Procs |-> mergeLocals]
    /\ result = [p \in Procs |-> <<>>]
    /\ Embedder = Nil
    /\ LLM = Nil
    /\ VectorStore = Nil
    /\ QueryEngine = noQueryEngine
    /\ Callbacks = {}
    /\ stored = [v \in VectorStores |-> <<>>]
    /\ ipc = "idle"
    /\ ilocals = ingestLocals("", 0)
    /\ ievents = <<>>
    /\ ireturn = Pending

\* no RAGSystem is constructed
RagIdle ==
    /\ Embedder = Nil
    /\ LLM = Nil
    /\ VectorStore = Nil
    /\ QueryEngine = noQueryEngine
    /\ Callbacks = {}
    /\ stored = [v \in VectorStores |-> <<>>]
    /\ ipc = "off"
    /\ ilocals = ingestLocals("", 0)
    /\ ievents = <<>>
    /\ ireturn = Pending

WithEmbedding(embedder) ==
    /\ ipc = "idle"
    /\ Embedder' = embedder
    /\ UNCHANGED <<LLM, VectorStore, QueryEngine, Callbacks, stored,
                   ipc, ilocals, ievents, ireturn, notRag>>

WithLLM(llmModel) ==
    /\ ipc = "idle"
    /\ LLM' = llmModel
    /\ UNCHANGED <<Embedder, VectorStore, QueryEngine, Callbacks, stored,
                   ipc, ilocals, ievents, ireturn, notRag>>

WithVectorStore(vectorStore) ==
    /\ ipc = "idle"
    /\ VectorStore' = vectorStore
    /\ UNCHANGED <<Embedder, LLM, QueryEngine, Callbacks, stored,
                   ipc, ilocals, ievents, ireturn, notRag>>

\* WithOnIngestStarted, WithOnIngestProgress, WithOnIngestCompleted,
\* WithOnIngestError: the handler called name is set
WithOnIngest(name) ==
    /\ ipc = "idle"
    /\ Callbacks' = Callbacks \cup {name}
    /\ UNCHANGED <<Embedder, LLM, VectorStore, QueryEngine, stored,
                   ipc, ilocals, ievents, ireturn, notRag>>

\* a public ingestion method up to the entry of the loop of
\* ingestDocuments: bootstrap, the read of the source, OnIngestStarted
callIngest(entry, readOk, totalDocs) ==
    /\ ipc = "idle"
    /\ IF bootstrapError # NoError
          THEN /\ ireturn' = bootstrapError
               /\ ipc' = "done"
               /\ UNCHANGED <<QueryEngine, ilocals, ievents>>
          ELSE /\ QueryEngine' = bootstrapEngine
               /\ IF ~readOk
                     THEN /\ ireturn' = "failed to read"
                          /\ ipc' = "done"
                          /\ UNCHANGED <<ilocals, ievents>>
                     ELSE IF totalDocs = 0
                         THEN /\ ireturn' = NoError
                              /\ ipc' = "done"
                              /\ UNCHANGED <<ilocals, ievents>>
                         ELSE /\ ievents' = notify(ievents, "OnIngestStarted",
                                               [kind |-> "OnIngestStarted",
                                                totalDocs |-> totalDocs])
                              /\ ilocals' = ingestLocals(entry, totalDocs)
                              /\ ipc' = "docs"
                              /\ UNCHANGED ireturn
    /\ UNCHANGED <<Embedder, LLM, VectorStore, Callbacks, stored, notRag>>

\* IngestText: one document, made of the text given
IngestText == callIngest("IngestText", TRUE, 1)

\* IngestFile: one document, the content of the file if it can be read
IngestFile(readOk) == callIngest("IngestFile", readOk, 1)

\* IngestDirectory: the documents the reader loads, none when no file
\* matches
IngestDirectory(loadOk, totalDocs) == callIngest("IngestDirectory", loadOk, totalDocs)

\* the head of the loop over the documents: the document is split; docText
\* is the text of docs[docIdx]
IngestSplit(docText) ==
    /\ ipc = "docs"
    /\ ilocals.docIdx < ilocals.totalDocs
    /\ LET r == splitText(Tokenizer, docText, ChunkSize, ChunkOverlap)
       IN  IF r.pc # "done"
             THEN /\ ipc' = "crash"
                  /\ UNCHANGED ilocals
             ELSE IF Len(r.result) = 0
                 THEN /\ ilocals' = [ilocals EXCEPT !.chunks = r.result, !.i = 0,
                                                    !.docIdx = ilocals.docIdx + 1]
                      /\ UNCHANGED ipc
                 ELSE /\ ilocals' = [ilocals EXCEPT !.chunks = r.result, !.i = 0]
                      /\ ipc' = "chunks"
    /\ UNCHANGED <<Embedder, LLM, VectorStore, QueryEngine, Callbacks, stored,
                   ievents, ireturn, notRag>>

\* an iteration of the loop over the chunks that reports a failed
\* embedding call and goes on with the next chunk
IngestChunkKeepGoing(embedOk) ==
    /\ ipc = "chunks"
    /\ LET i == ilocals.i
           chunk == ilocals.chunks[i + 1]
           totalChunks == Len(ilocals.chunks)
           progressed == notify(ievents, "OnIngestProgress",
                                [kind |-> "OnIngestProgress",
                                 TotalDocuments |-> ilocals.totalDocs,
                                 CurrentDocumentIndex |-> ilocals.docIdx,
                                 TotalChunksInDoc |-> totalChunks,
                                 CurrentChunkIndex |-> i])
           embedded == Append(progressed, [kind |-> "Embeddings", embedder |-> Embedder,
                                           content |-> chunk])
           node == [doc |-> ilocals.docIdx, chunk |-> i, text |-> chunk]
           nodes == IF embedOk THEN Append(ilocals.allNodes, node) ELSE ilocals.allNodes
       IN  /\ ievents' = IF embedOk THEN embedded
                         ELSE notify(embedded, "OnIngestError",
                                     [kind |-> "OnIngestError",
                                      err |-> "failed to get embedding"])
           /\ IF i + 1 < totalChunks
                 THEN /\ ilocals' = [ilocals EXCEPT !.allNodes = nodes, !.i = i + 1]
                      /\ UNCHANGED ipc
                 ELSE /\ ilocals' = [ilocals EXCEPT !.allNodes = nodes, !.i = i + 1,
                                                    !.docIdx = ilocals.docIdx + 1]
                      /\ ipc' = "docs"
           /\ UNCHANGED ireturn
    /\ UNCHANGED <<Embedder, LLM, VectorStore, QueryEngine, Callbacks, stored, notRag>>

\* one iteration of the loop over the chunks: OnIngestProgress, the
\* embedding call, the node
IngestChunk(embedOk) ==
    /\ ipc = "chunks"
    /\ LET i == ilocals.i
           chunk == ilocals.chunks[i + 1]
           totalChunks == Len(ilocals.chunks)
           progressed == notify(ievents, "OnIngestProgress",
                                [kind |-> "OnIngestProgress",
                                 TotalDocuments |-> ilocals.totalDocs,
                                 CurrentDocumentIndex |-> ilocals.docIdx,
                                 TotalChunksInDoc |-> totalChunks,
                                 CurrentChunkIndex |-> i])
           embedded == Append(progressed, [kind |-> "Embeddings", embedder |-> Embedder,
                                           content |-> chunk])
           node == [doc |-> ilocals.docIdx, chunk |-> i, text |-> chunk]
       IN  IF ~embedOk
             THEN /\ ievents' = notify(embedded, "OnIngestError",
                                       [kind |-> "OnIngestError",
                                        err |-> "failed to get embedding"])
                  /\ ireturn' = "failed to get embedding"
                  /\ ipc' = "done"
                  /\ UNCHANGED ilocals
             ELSE /\ ievents' = embedded
                  /\ IF i + 1 < totalChunks
                        THEN /\ ilocals' = [ilocals EXCEPT
                                               !.allNodes = Append(ilocals.allNodes, node),
                                               !.i = i + 1]
                             /\ UNCHANGED ipc
                        ELSE /\ ilocals' = [ilocals EXCEPT
                                               !.allNodes = Append(ilocals.allNodes, node),
                                               !.i = i + 1,
                                               !.docIdx = ilocals.docIdx + 1]
                             /\ ipc' = "docs"
                  /\ UNCHANGED ireturn
    /\ UNCHANGED <<Embedder, LLM, VectorStore, QueryEngine, Callbacks, stored, notRag>>

\* the end of ingestDocuments that reports the completion before it adds
\* the nodes to the vector store
IngestFinishCompletedFirst(addOk) ==
    /\ ipc = "docs"
    /\ ilocals.docIdx >= ilocals.totalDocs
    /\ LET completed == notify(ievents, "OnIngestCompleted", [kind |-> "OnIngestCompleted"])
           added == Append(completed, [kind |-> "Add", vectorStore |-> VectorStore,
                                       nodes |-> ilocals.allNodes])
       IN  /\ ievents' = IF Len(ilocals.allNodes) > 0 THEN added ELSE completed
           /\ stored' = IF Len(ilocals.allNodes) > 0
                            THEN [stored EXCEPT ![VectorStore] = @ \o ilocals.allNodes]
                            ELSE stored
           /\ ireturn' = NoError
    /\ ipc' = "done"
    /\ UNCHANGED <<Embedder, LLM, VectorStore, QueryEngine, Callbacks, ilocals, notRag>>

\* the end of ingestDocuments: the nodes are added to the vector store,
\* then OnIngestCompleted
IngestFinish(addOk) ==
    /\ ipc = "docs"
    /\ ilocals.docIdx >= ilocals.totalDocs
    /\ LET added == Append(ievents, [kind |-> "Add", vectorStore |-> VectorStore,
                                     nodes |-> ilocals.allNodes])
       IN  IF Len(ilocals.allNodes) > 0
             THEN IF ~addOk
                    THEN /\ ievents' = notify(added, "OnIngestError",
                                              [kind |-> "OnIngestError",
                                               err |-> "failed to add nodes to vector store"])
                         /\ ireturn' = "failed to add nodes to vector store"
                         /\ UNCHANGED stored
                    ELSE /\ ievents' = notify(added, "OnIngestCompleted",
                                              [kind |-> "OnIngestCompleted"])
                         /\ stored' = [stored EXCEPT ![VectorStore] = @ \o ilocals.allNodes]
                         /\ ireturn' = NoError
             ELSE /\ ievents' = notify(ievents, "OnIngestCompleted",
                                       [kind |-> "OnIngestCompleted"])
                  /\ ireturn' = NoError
                  /\ UNCHANGED stored
    /\ ipc' = "done"
    /\ UNCHANGED <<Embedder, LLM, VectorStore, QueryEngine, Callbacks, ilocals, notRag>>

\* the Query calls made so far
queriesMade ==
    Cardinality({k \in 1..Len(ievents) : ievents[k].kind \in {"Retrieve", "QueryFailed"}})

\* Query: bootstrap, then the QueryEngine's retriever embeds the question
\* and searches its vector store; the event records the components of the
\* retriever and those set on the system when the call is made
Query ==
    /\ ipc \in {"idle", "done"}
    /\ queriesMade < MaxQueries
    /\ IF bootstrapError # NoError
          THEN /\ ievents' = Append(ievents, [kind |-> "QueryFailed", err |-> bootstrapError])
               /\ UNCHANGED QueryEngine
          ELSE /\ QueryEngine' = bootstrapEngine
               /\ ievents' = Append(ievents,
                                    [kind |-> "Retrieve",
                                     embedder |-> bootstrapEngine.embedder,
                                     vectorStore |-> bootstrapEngine.vectorStore,
                                     systemEmbedder |-> Embedder,
                                     systemVectorStore |-> VectorStore])
    /\ UNCHANGED <<Embedder, LLM, VectorStore, Callbacks, stored,
                   ipc, ilocals, ireturn, notRag>>

(***************************************************************************)
(* http Client: NewClient, WithTimeout, getClient over sync.Once.          *)
(***************************************************************************)
DefaultTimeout == 30
\* the timeouts WithTimeout is called with, in seconds
TimeoutArgs == {60, 120}

Goroutines == 1..MaxGoroutines

NoClient == [id |-> 0, Timeout |-> 0]
\* the Client all calls are made on
ClientSelf == "c"

noCall == [op |-> "none", arg |-> 0, clientAtCall |-> FALSE]
noReturn == [getClient |-> NoClient, returned |-> FALSE, WithTimeout |-> Nil]

\* NewClient: the default timeout, no http.Client, a fresh Once
InitClient ==
    /\ ctimeout = DefaultTimeout
    /\ cclient = NoClient
    /\ onceDone = FALSE
    /\ onceMutex = 0
    /\ created = 0
    /\ gpc = [g \in Goroutines |-> "idle"]
    /\ gcall = [g \in Goroutines |-> noCall]
    /\ gret = [g \in Goroutines |-> noReturn]

\* no http Client is constructed
ClientIdle ==
    /\ ctimeout = DefaultTimeout
    /\ cclient = NoClient
    /\ onceDone = FALSE
    /\ onceMutex = 0
    /\ created = 0
    /\ gpc = [g \in Goroutines |-> "off"]
    /\ gcall = [g \in Goroutines |-> noCall]
    /\ gret = [g \in Goroutines |-> noReturn]

\* WithTimeout that sets the timeout whether or not the http.Client exists
WithTimeoutNoTest(g, timeout) ==
    /\ gpc[g] = "idle"
    /\ gcall' = [gcall EXCEPT ![g] = [op |-> "WithTimeout", arg |-> timeout,
                                      clientAtCall |-> cclient # NoClient]]
    /\ gpc' = [gpc EXCEPT ![g] = "set"]
    /\ UNCHANGED <<ctimeout, cclient, onceDone, onceMutex, created, gret, notClient>>

\* WithTimeout up to its test of c.client: it returns c when the
\* http.Client exists
WithTimeout(g, timeout) ==
    /\ gpc[g] = "idle"
    /\ gcall' = [gcall EXCEPT ![g] = [op |-> "WithTimeout", arg |-> timeout,
                                      clientAtCall |-> cclient # NoClient]]
    /\ IF cclient # NoClient
          THEN /\ gret' = [gret EXCEPT ![g].WithTimeout = ClientSelf]
               /\ UNCHANGED gpc
          ELSE /\ gpc' = [gpc EXCEPT ![g] = "set"]
               /\ UNCHANGED gret
    /\ UNCHANGED <<ctimeout, cclient, onceDone, onceMutex, created, notClient>>

\* WithTimeout: c.timeout = timeout; return c
WithTimeoutSet(g) ==
    /\ gpc[g] = "set"
    /\ ctimeout' = gcall[g].arg
    /\ gret' = [gret EXCEPT ![g].WithTimeout = ClientSelf]
    /\ gpc' = [gpc EXCEPT ![g] = "idle"]
    /\ UNCHANGED <<cclient, onceDone, onceMutex, created, gcall, notClient>>

\* getClient is called: it enters clientOnce.Do
getClient(g) ==
    /\ gpc[g] = "idle"
    /\ gcall' = [gcall EXCEPT ![g] = [op |-> "getClient", arg |-> 0,
                                      clientAtCall |-> cclient # NoClient]]
    /\ gpc' = [gpc EXCEPT ![g] = "once"]
    /\ UNCHANGED <<ctimeout, cclient, onceDone, onceMutex, created, gret, notClient>>

\* Once.Do: the load of done on the fast path
OnceDo(g) ==
    /\ gpc[g] = "once"
    /\ gpc' = [gpc EXCEPT ![g] = IF onceDone THEN "read" ELSE "lock"]
    /\ UNCHANGED <<ctimeout, cclient, onceDone, onceMutex, created, gcall, gret, notClient>>

\* doSlow that runs f without looking at done again
OnceDoSlowNoTest(g) ==
    /\ gpc[g] = "lock"
    /\ onceMutex = 0
    /\ onceMutex' = g
    /\ gpc' = [gpc EXCEPT ![g] = "init"]
    /\ UNCHANGED <<ctimeout, cclient, onceDone, created, gcall, gret, notClient>>

\* Once.doSlow: the mutex is taken, done is looked at again
OnceDoSlow(g) ==
    /\ gpc[g] = "lock"
    /\ onceMutex = 0
    /\ IF onceDone
          THEN /\ gpc' = [gpc EXCEPT ![g] = "read"]
               /\ UNCHANGED onceMutex
          ELSE /\ onceMutex' = g
               /\ gpc' = [gpc EXCEPT ![g] = "init"]
    /\ UNCHANGED <<ctimeout, cclient, onceDone, created, gcall, gret, notClient>>

\* the function given to Once.Do: c.client = &http.Client{Timeout: c.timeout}
OnceInit(g) ==
    /\ gpc[g] = "init"
    /\ cclient' = [id |-> created + 1, Timeout |-> ctimeout]
    /\ created' = created + 1
    /\ gpc' = [gpc EXCEPT ![g] = "store"]
    /\ UNCHANGED <<ctimeout, onceDone, onceMutex, gcall, gret, notClient>>

\* the end of doSlow: done is stored, the mutex released
OnceDone(g) ==
    /\ gpc[g] = "store"
    /\ onceDone' = TRUE
    /\ onceMutex' = 0
    /\ gpc' = [gpc EXCEPT ![g] = "read"]
    /\ UNCHANGED <<ctimeout, cclient, created, gcall, gret, notClient>>

\* return c.client
getClientReturn(g) ==
    /\ gpc[g] = "read"
    /\ gret' = [gret EXCEPT ![g].getClient = cclient, ![g].returned = TRUE]
    /\ gpc' = [gpc EXCEPT ![g] = "idle"]
    /\ UNCHANGED <<ctimeout, cclient, onceDone, onceMutex, created, gcall, notClient>>

(***************************************************************************)
(* LLMConfig.WithDefaults and OptionalConfig.GetConfig.  A string value    *)
(* is a tuple, the empty string the empty tuple.                           *)
(***************************************************************************)
EmptyString == <<>>
OPENAI == "openai"
OLLAMA == "ollama"
DEFAULT_OPENAI_URL_V1 == <<"https://api.openai.com/v1">>
DEFAULT_OLLAMA_URL == <<"http://localhost:11434">>

\* the providers GetConfig is called for: the two known ones, one unknown
Providers == {OPENAI, OLLAMA, "unknown"}

\* strings.ToUpper on the providers
ToUpper(provider) ==
    IF provider = OPENAI THEN "OPENAI"
    ELSE IF provider = OLLAMA THEN "OLLAMA"
    ELSE "UNKNOWN"

\* fmt.Sprintf("%s_URL", ...) and fmt.Sprintf("%s_API_KEY", ...)
EnvVarName(provider, suffix) == <<ToUpper(provider), suffix>>

EnvVarNames == {EnvVarName(provider, suffix) : provider \in Providers, suffix \in {"URL", "API_KEY"}}

\* the environments: every variable unset, or set to a value of its own
Environments ==
    {[name \in EnvVarNames |-> IF name \in set THEN <<"env", name[1], name[2]>> ELSE EmptyString] :
        set \in SUBSET EnvVarNames}

\* the map providerDefaultUrls; a missing key reads as the empty string
providerDefaultUrls(provider) ==
    IF provider = OPENAI THEN DEFAULT_OPENAI_URL_V1
    ELSE IF provider = OLLAMA THEN DEFAULT_OLLAMA_URL
    ELSE EmptyString

\* the configurations a caller passes
LLMConfigs ==
    [Provider : {EmptyString}, Url : {EmptyString, <<"config url">>},
     ApiKey : {EmptyString, <<"config key">>}]

OptionalConfigs == UNION {[1..n -> LLMConfigs] : n \in 0..MaxConfigs}

\* WithDefaults that asks the environment before it looks at the receiver
WithDefaultsEnvFirst(c, provider, env) ==
    LET envUrl == env[EnvVarName(provider, "URL")]
        envKey == env[EnvVarName(provider, "API_KEY")]
        url == IF envUrl # EmptyString THEN envUrl
               ELSE IF c.Url # EmptyString THEN c.Url
               ELSE providerDefaultUrls(provider)
        apiKey == IF envKey # EmptyString THEN envKey ELSE c.ApiKey
    IN  [receiver |-> [c EXCEPT !.Url = url, !.ApiKey = apiKey],
         returned |-> [Provider |-> c.Provider, Url |-> url, ApiKey |-> apiKey]]

\* LLMConfig.WithDefaults: the receiver after the call and the configuration
\* returned
WithDefaults(c, provider, env) ==
    LET url == IF c.Url = EmptyString
                   THEN IF env[EnvVarName(provider, "URL")] = EmptyString
                            THEN providerDefaultUrls(provider)
                            ELSE env[EnvVarName(provider, "URL")]
                   ELSE c.Url
        apiKey == IF c.ApiKey = EmptyString
                      THEN env[EnvVarName(provider, "API_KEY")]
                      ELSE c.ApiKey
    IN  [receiver |-> [c EXCEPT !.Url = url, !.ApiKey = apiKey],
         returned |-> [Provider |-> c.Provider, Url |-> url, ApiKey |-> apiKey]]

\* &LLMConfig{}
zeroLLMConfig == [Provider |-> EmptyString, Url |-> EmptyString, ApiKey |-> EmptyString]

InitConfig ==
    /\ environ \in Environments
    /\ optionalConfig \in OptionalConfigs
    /\ given = optionalConfig
    /\ cfgProvider = EmptyString
    /\ cfgReturn = zeroLLMConfig
    /\ cfgpc = "idle"

\* GetConfig is not called
ConfigIdle ==
    /\ environ = [name \in EnvVarNames |-> EmptyString]
    /\ optionalConfig = <<>>
    /\ given = <<>>
    /\ cfgProvider = EmptyString
    /\ cfgReturn = zeroLLMConfig
    /\ cfgpc = "off"

\* OptionalConfig.GetConfig
GetConfig(provider) ==
    /\ cfgpc = "idle"
    /\ cfgProvider' = <<provider>>
    /\ LET config == IF Len(optionalConfig) = 1 THEN optionalConfig[1] ELSE zeroLLMConfig
           r == WithDefaults(config, provider, environ)
       IN  /\ cfgReturn' = r.returned
           /\ optionalConfig' = IF Len(optionalConfig) = 1 THEN <<r.receiver>> ELSE optionalConfig
    /\ cfgpc' = "done"
    /\ UNCHANGED <<environ, given, notConfig>>

vars == <<sentenceVars, paragraphVars, ragVars, clientVars, configVars, newCall>>

(***************************************************************************)
(* Spec: one SplitText call on one constructed splitter, the text drawn    *)
(* from Texts.                                                             *)
(***************************************************************************)
Init == InitSentence /\ ParagraphIdle /\ RagIdle /\ ClientIdle /\ ConfigIdle

Next ==
    \/ \E t \in Texts : SplitText(1, t)
    \/ MergeStep(1)
    \/ MergeReturn(1)

Spec == Init /\ [][Next]_vars

(***************************************************************************)
(* SpecFair: Spec with a call that keeps running: a step of merge that can  *)
(* be taken is taken (the goroutine is scheduled, nothing blocks it).      *)
(***************************************************************************)
SpecFair == Spec /\ WF_vars(MergeStep(1)) /\ WF_vars(MergeReturn(1))

(***************************************************************************)
(* SpecNew: a splitter is constructed with any arguments, 0 and nil        *)
(* included, then called once on a text of ConcTexts.                      *)
(***************************************************************************)
NextNew ==
    \/ \E chunkSize \in 0..ChunkSizeBound, chunkOverlap \in 0..MaxOverlap,
          tokenizer \in Tokenizers \cup {Nil} : New(chunkSize, chunkOverlap, tokenizer)
    \/ \E t \in ConcTexts : SplitText(1, t)
    \/ MergeStep(1)
    \/ MergeReturn(1)

InitSpecNew == InitNew /\ ParagraphIdle /\ RagIdle /\ ClientIdle /\ ConfigIdle

SpecNew == InitSpecNew /\ [][NextNew]_vars

(***************************************************************************)
(* SpecConc: two goroutines call SplitText on the same splitter, their     *)
(* steps interleaved in every order; the texts are drawn from ConcTexts    *)
(* and the tokenizer is the vocabulary tokenizer.                          *)
(***************************************************************************)
InitConc ==
    InitSentence /\ Tokenizer = "tiktoken" /\ ParagraphIdle /\ RagIdle /\ ClientIdle /\ ConfigIdle

NextConc ==
    \E p \in Procs :
        \/ \E t \in ConcTexts : SplitText(p, t)
        \/ MergeStep(p)
        \/ MergeReturn(p)

SpecConc == InitConc /\ [][NextConc]_vars

(***************************************************************************)
(* SpecPara: one SplitText call on one constructed ParagraphSplitter, the  *)
(* text drawn from ParaTexts.                                              *)
(***************************************************************************)
InitPara ==
    /\ SentenceIdle
    /\ RagIdle
    /\ ClientIdle
    /\ ConfigIdle
    /\ MaxChunkSize \in 1..ParaSizeBound
    /\ ppc = "idle"
    /\ ptext = <<>>
    /\ plocals = paraLocals(<<>>)
    /\ presult = <<>>

NextPara ==
    \/ \E t \in ParaTexts : ParaSplitText(t)
    \/ ParaNormal
    \/ ParaOversized
    \/ ParaSubPart
    \/ ParaReturn

SpecPara == InitPara /\ [][NextPara]_vars

(***************************************************************************)
(* SpecRag: one RAGSystem is constructed, its components and handlers are  *)
(* injected in any order, and one ingestion call is made; the texts of     *)
(* the documents are drawn from DocTexts, and every embedding call and     *)
(* the vector-store Add may fail.                                          *)
(***************************************************************************)
NextRag ==
    \/ \E embedder \in Embedders : WithEmbedding(embedder)
    \/ \E llmModel \in LLMs : WithLLM(llmModel)
    \/ \E vectorStore \in VectorStores : WithVectorStore(vectorStore)
    \/ \E name \in CallbackNames : WithOnIngest(name)
    \/ IngestText
    \/ \E readOk \in BOOLEAN : IngestFile(readOk)
    \/ \E loadOk \in BOOLEAN, totalDocs \in 0..MaxDocs : IngestDirectory(loadOk, totalDocs)
    \/ \E docText \in DocTexts : IngestSplit(docText)
    \/ \E embedOk \in BOOLEAN : IngestChunk(embedOk)
    \/ \E addOk \in BOOLEAN : IngestFinish(addOk)

InitSpecRag == InitRag /\ ParagraphIdle /\ ClientIdle /\ ConfigIdle

SpecRag == InitSpecRag /\ [][NextRag]_vars

(***************************************************************************)
(* SpecQuery: one RAGSystem is constructed; its components are injected    *)
(* and Query is called in any order, before and after one IngestText call. *)
(***************************************************************************)
NextQuery ==
    \/ \E embedder \in Embedders : WithEmbedding(embedder)
    \/ \E llmModel \in LLMs : WithLLM(llmModel)
    \/ \E vectorStore \in VectorStores : WithVectorStore(vectorStore)
    \/ Query
    \/ IngestText
    \/ \E docText \in DocTexts : IngestSplit(docText)
    \/ \E embedOk \in BOOLEAN : IngestChunk(embedOk)
    \/ \E addOk \in BOOLEAN : IngestFinish(addOk)

SpecQuery == InitSpecRag /\ [][NextQuery]_vars

(***************************************************************************)
(* SpecClient: the goroutines call WithTimeout and getClient on one http   *)
(* Client, any number of times, their steps interleaved in every order.    *)
(***************************************************************************)
NextClient ==
    \E g \in Goroutines :
        \/ \E timeout \in TimeoutArgs : WithTimeout(g, timeout)
        \/ WithTimeoutSet(g)
        \/ getClient(g)
        \/ OnceDo(g)
        \/ OnceDoSlow(g)
        \/ OnceInit(g)
        \/ OnceDone(g)
        \/ getClientReturn(g)

InitSpecClient == InitClient /\ SentenceIdle /\ ParagraphIdle /\ RagIdle /\ ConfigIdle

SpecClient == InitSpecClient /\ [][NextClient]_vars

(***************************************************************************)
(* SpecConfig: GetConfig is called once, for a provider of Providers, on   *)
(* an OptionalConfig of OptionalConfigs, in an environment of              *)
(* Environments.                                                           *)
(***************************************************************************)
NextConfig == \E provider \in Providers : GetConfig(provider)

InitSpecConfig == InitConfig /\ SentenceIdle /\ ParagraphIdle /\ RagIdle /\ ClientIdle

SpecConfig == InitSpecConfig /\ [][NextConfig]_vars

(***************************************************************************)
(* Properties of SentenceSplitter.SplitText.                               *)
(***************************************************************************)
Returned(p) == pc[p] = "done"

leafTexts(leaves) == Concat([i \in 1..Len(leaves) |-> leaves[i].text])

HasOversizedChar(p) ==
    \E i \in 1..Len(text[p]) : getTokenSize(Tokenizer, <<text[p][i]>>) > ChunkSize

\* C2: a call whose decomposition reaches a single character larger than
\* ChunkSize ends in the invariant panic of merge ("Single token exceeded
\* chunk size"): it neither returns nor fails to return.
C2_OversizedCharPanics ==
    \A p \in Procs :
        (pc[p] \in {"done", "panic", "stack_overflow"} /\ HasOversizedChar(p)) =>
            pc[p] = "panic"

\* C3 as stated: a text that fits ChunkSize comes back as exactly one
\* chunk, the trimmed text.
C3_FittingTextOneChunk ==
    \A p \in Procs :
        (Returned(p) /\ getTokenSize(Tokenizer, text[p]) <= ChunkSize) =>
            result[p] = <<TrimSpace(text[p])>>

\* C3 amended: a text that fits ChunkSize comes back as exactly one chunk,
\* the trimmed text, unless it is non-empty and all whitespace: then no
\* chunk comes back.
C3_FittingTextOneChunkOrNone ==
    \A p \in Procs :
        (Returned(p) /\ getTokenSize(Tokenizer, text[p]) <= ChunkSize) =>
            IF text[p] # <<>> /\ TrimSpace(text[p]) = <<>>
                THEN result[p] = <<>>
                ELSE result[p] = <<TrimSpace(text[p])>>

\* a fitting text with surrounding whitespace came back trimmed
C3_Witness ==
    /\ Returned(1)
    /\ getTokenSize(Tokenizer, text[1]) <= ChunkSize
    /\ Len(text[1]) >= 3
    /\ IsSpace(text[1][1])
    /\ IsSpace(text[1][Len(text[1])])
    /\ result[1] = <<TrimSpace(text[1])>>
    /\ result[1] # <<text[1]>>

(***************************************************************************)
(* The overlap between consecutive chunks of merge.  The inherited items   *)
(* of a chunk are its leading items whose leaf is also in the previous     *)
(* chunk.                                                                  *)
(***************************************************************************)
lastItem(items) == items[Len(items)]

inherited(prev, cur) ==
    SelectSeq(cur, LAMBDA item : item.idx <= lastItem(prev).idx)

firstNew(prev, cur) == cur[Len(inherited(prev, cur)) + 1]

isItemSuffix(part, items) ==
    /\ Len(part) <= Len(items)
    /\ SubSeq(items, Len(items) - Len(part) + 1, Len(items)) = part

\* chunk i + 1 begins with a non-empty suffix of chunk i within ChunkOverlap
overlapKept(m, i) ==
    LET ov == inherited(m.chunkItems[i], m.chunkItems[i + 1])
    IN  /\ ov # <<>>
        /\ itemsText(ov) # <<>>
        /\ isItemSuffix(ov, m.chunkItems[i])
        /\ IsPrefixOf(ov, m.chunkItems[i + 1])
        /\ IsSuffixOf(itemsText(ov), m.chunks[i])
        /\ IsPrefixOf(itemsText(ov), m.chunks[i + 1])
        /\ itemsLen(ov) <= ChunkOverlap
        /\ getTokenSize(Tokenizer, itemsText(ov)) <= ChunkOverlap

\* chunk i + 1 has no overlap: the overlap closeChunk copied did not leave
\* room for the next leaf and was evicted down to nothing
overlapDropped(m, i) ==
    /\ inherited(m.chunkItems[i], m.chunkItems[i + 1]) = <<>>
    /\ lastItem(m.chunkItems[i]).len <= ChunkOverlap
    /\ lastItem(m.chunkItems[i]).len + firstNew(m.chunkItems[i], m.chunkItems[i + 1]).len
          > ChunkSize

\* chunk i + 1 has no overlap: the last leaf of chunk i alone is larger
\* than ChunkOverlap, so closeChunk copied nothing
overlapNone(m, i) ==
    /\ inherited(m.chunkItems[i], m.chunkItems[i + 1]) = <<>>
    /\ lastItem(m.chunkItems[i]).len > ChunkOverlap

\* C4 as stated: consecutive chunks of merge either share a non-empty
\* overlap within ChunkOverlap, or the overlap was dropped to make room for
\* the next leaf.
C4_OverlapKeptOrDropped ==
    \A p \in Procs :
        \A i \in 1..(Len(acc[p].chunkItems) - 1) :
            overlapKept(acc[p], i) \/ overlapDropped(acc[p], i)

\* C4 amended: consecutive chunks of merge either share a non-empty overlap
\* within ChunkOverlap, or the overlap was dropped to make room for the
\* next leaf, or there was no overlap to begin with because the last leaf
\* of the earlier chunk is larger than ChunkOverlap (always so for a leaf
\* of positive size when ChunkOverlap is 0).
C4_OverlapKeptDroppedOrNone ==
    \A p \in Procs :
        \A i \in 1..(Len(acc[p].chunkItems) - 1) :
            \/ overlapKept(acc[p], i)
            \/ overlapDropped(acc[p], i)
            \/ overlapNone(acc[p], i)

\* a returned call with three chunks: one pair shares an overlap, one pair
\* had its overlap evicted
C4_Witness ==
    /\ Returned(1)
    /\ Len(acc[1].chunkItems) >= 3
    /\ \E i \in 1..(Len(acc[1].chunkItems) - 1) : overlapKept(acc[1], i)
    /\ \E i \in 1..(Len(acc[1].chunkItems) - 1) : overlapDropped(acc[1], i)

\* C5: the texts of the leaves split returned, concatenated in order, are
\* the text split was called with.
C5_LeavesReconstructText ==
    \A p \in Procs :
        pc[p] \in {"merge", "done"} /\ text[p] # <<>> => leafTexts(splits[p]) = text[p]

\* split returned at least three leaves, some from a natural boundary and
\* some from a fallback split, one of them a paragraph-separator piece
C5_Witness ==
    /\ pc[1] = "merge"
    /\ Len(splits[1]) >= 3
    /\ \E i \in 1..Len(splits[1]) : splits[1][i].isSentence
    /\ \E i \in 1..Len(splits[1]) : ~splits[1][i].isSentence
    /\ Len(SplitBySep(DefaultParagraphSep, text[1])) > 1

\* C6: every string a call on a non-empty text returns is non-empty and
\* neither starts nor ends with whitespace.
C6_ChunksTrimmedNonEmpty ==
    \A p \in Procs :
        (Returned(p) /\ text[p] # <<>>) =>
            \A i \in 1..Len(result[p]) :
                /\ result[p][i] # <<>>
                /\ ~IsSpace(result[p][i][1])
                /\ ~IsSpace(result[p][i][Len(result[p][i])])

\* merge emitted a blank chunk, which was dropped, and a chunk with
\* surrounding whitespace, which was trimmed
C6_Witness ==
    /\ Returned(1)
    /\ Len(result[1]) >= 1
    /\ \E i \in 1..Len(acc[1].chunks) : TrimSpace(acc[1].chunks[i]) = <<>>
    /\ \E i \in 1..Len(acc[1].chunks) :
          /\ TrimSpace(acc[1].chunks[i]) # <<>>
          /\ TrimSpace(acc[1].chunks[i]) # acc[1].chunks[i]

\* C7: a call on the empty text returns exactly one element, the empty
\* text.
C7_EmptyTextReturnsItself ==
    \A p \in Procs :
        (Returned(p) /\ text[p] = <<>>) => result[p] = <<(<<>>)>>

\* a call on the empty text returned
C7_Witness == Returned(1) /\ text[1] = <<>> /\ Len(result[1]) = 1

(***************************************************************************)
(* Concurrent calls.                                                       *)
(***************************************************************************)
\* a call that has ended, ended the way it ends when run alone, with the
\* same result
endsAsAlone(p) ==
    pc[p] \in {"done", "stack_overflow", "panic"} =>
        LET alone == splitText(Tokenizer, text[p], ChunkSize, ChunkOverlap)
        IN  pc[p] = alone.pc /\ (pc[p] = "done" => result[p] = alone.result)

\* a call inside merge holds the leaves split returns for its own text
holdsOwnLeaves(p) ==
    pc[p] = "merge" => splits[p] = split(Tokenizer, text[p], ChunkSize).leaves

fieldsUnchanged ==
    /\ ChunkSize' = ChunkSize
    /\ ChunkOverlap' = ChunkOverlap
    /\ Tokenizer' = Tokenizer

\* C8: concurrent SplitText calls on one splitter share no mutable state:
\* no step of a call writes a field of the splitter, every call works on
\* its own leaf list and accumulator, and under every interleaving every
\* call ends as it does when run alone, with the same result.
C8_ConcurrentCallsIndependent ==
    /\ [](\A p \in Procs : endsAsAlone(p) /\ holdsOwnLeaves(p))
    /\ [][fieldsUnchanged]_vars

\* two calls on different texts are both inside the loop of merge, each
\* with a chunk emitted and leaves still to merge
C8_Witness ==
    /\ text[1] # text[2]
    /\ \A p \in Procs :
          /\ pc[p] = "merge"
          /\ Len(acc[p].chunks) >= 1
          /\ acc[p].curChunk # <<>>
          /\ acc[p].splitIdx < Len(splits[p])

(***************************************************************************)
(* Properties of ParagraphSplitter.SplitText.                              *)
(***************************************************************************)
ParaReturned == ppc = "done"

\* C9 as stated: every chunk the call returns is at most MaxChunkSize
\* bytes long.
C9_ChunksWithinMaxChunkSize ==
    ParaReturned => \A i \in 1..Len(presult) : ByteLen(presult[i]) <= MaxChunkSize

\* C9 amended: every chunk the call returns is at most MaxChunkSize bytes
\* long, unless the chunk is one single code point whose encoding is
\* longer than MaxChunkSize.
C9_ChunksWithinMaxChunkSizeOrOneRune ==
    ParaReturned =>
        \A i \in 1..Len(presult) :
            \/ ByteLen(presult[i]) <= MaxChunkSize
            \/ Len(presult[i]) = 1 /\ Utf8Len(presult[i][1]) > MaxChunkSize

\* a returned call with a chunk of two paragraphs that fills MaxChunkSize
\* exactly, followed by a chunk that starts with the overlap paragraph
C9_Witness ==
    /\ ParaReturned
    /\ Len(presult) >= 2
    /\ \E i \in 1..(Len(plocals.emitted) - 1) :
          /\ Len(plocals.emitted[i].paras) >= 2
          /\ ByteLen(presult[i]) = MaxChunkSize
          /\ plocals.emitted[i + 1].inherit
          /\ ByteLen(presult[i + 1]) = MaxChunkSize

\* C10: whenever a chunk follows another, it begins with exactly one
\* overlap paragraph, the last paragraph of the chunk before it, followed
\* by the new paragraph that did not fit; it begins with the new paragraph
\* itself only when overlap + separator + new paragraph exceed
\* MaxChunkSize.
C10_NextChunkOverlapThenNew ==
    \A i \in 2..Len(plocals.emitted) :
        LET prev == plocals.emitted[i - 1].paras
            cur == plocals.emitted[i]
            lastPara == prev[Len(prev)]
        IN  IF cur.inherit
                THEN /\ Len(cur.paras) >= 2
                     /\ cur.paras[1] = lastPara
                ELSE ByteLen(lastPara) + Len(ParagraphSeparator) + ByteLen(cur.paras[1])
                         > MaxChunkSize

(***************************************************************************)
(* Properties of splitOversizedParagraph.  While the call is in the loop   *)
(* over the sub-parts, plocals.subParts is what splitOversizedParagraph    *)
(* returned for the paragraph at plocals.next.                             *)
(***************************************************************************)
inSubParts == ppc = "sub"

oversizedPara == plocals.paragraphs[plocals.next]

\* the pieces are whole code points of the paragraph, in order, none empty
cutAtCodePoints ==
    /\ Concat(plocals.subParts) = oversizedPara
    /\ \A i \in 1..Len(plocals.subParts) : plocals.subParts[i] # <<>>

\* the next code point would not fit in piece i
pieceMaximal(i) ==
    i < Len(plocals.subParts) =>
        ByteLen(plocals.subParts[i]) + Utf8Len(plocals.subParts[i + 1][1]) > MaxChunkSize

\* the text is one paragraph of 2 * MaxChunkSize single-byte characters
twiceMaxSingleByte ==
    /\ trimmedParagraphs(ptext) = <<ptext>>
    /\ Len(ptext) = 2 * MaxChunkSize
    /\ ByteLen(ptext) = Len(ptext)

twoFullChunks ==
    (ParaReturned /\ twiceMaxSingleByte) =>
        presult = <<SubSeq(ptext, 1, MaxChunkSize),
                    SubSeq(ptext, MaxChunkSize + 1, 2 * MaxChunkSize)>>

\* C11 as stated: splitOversizedParagraph cuts an oversized paragraph at
\* code-point boundaries into pieces of at most MaxChunkSize bytes, each
\* maximal, and a paragraph of 2 * MaxChunkSize single-byte characters
\* comes back as two chunks of MaxChunkSize bytes.
C11_OversizedCutIntoMaximalPieces ==
    /\ inSubParts =>
          /\ cutAtCodePoints
          /\ \A i \in 1..Len(plocals.subParts) :
                /\ ByteLen(plocals.subParts[i]) <= MaxChunkSize
                /\ pieceMaximal(i)
    /\ twoFullChunks

\* C11 amended: the same, except that a piece may be one single code point
\* whose encoding is longer than MaxChunkSize.
C11_OversizedCutIntoMaximalPiecesOrOneRune ==
    /\ inSubParts =>
          /\ cutAtCodePoints
          /\ \A i \in 1..Len(plocals.subParts) :
                /\ \/ ByteLen(plocals.subParts[i]) <= MaxChunkSize
                   \/ /\ Len(plocals.subParts[i]) = 1
                      /\ Utf8Len(plocals.subParts[i][1]) > MaxChunkSize
                /\ pieceMaximal(i)
    /\ twoFullChunks

\* an oversized paragraph was cut into several pieces, one of them shorter
\* than MaxChunkSize because the three-byte code point after it did not fit
C11_Witness ==
    /\ inSubParts
    /\ Len(plocals.subParts) >= 2
    /\ \E i \in 1..(Len(plocals.subParts) - 1) :
          /\ ByteLen(plocals.subParts[i]) < MaxChunkSize
          /\ plocals.subParts[i + 1][1] = Wide

(***************************************************************************)
(* Properties of RAGSystem ingestion.                                      *)
(***************************************************************************)
\* the positions in ievents of the calls of one kind
eventsOf(kind) == {k \in 1..Len(ievents) : ievents[k].kind = kind}

\* ingestDocuments was entered and returned nil
IngestSucceeded == ipc = "done" /\ ireturn = NoError /\ ilocals.totalDocs >= 1

\* the progress events, in order, are about the chunks that became nodes,
\* one event per chunk
progressOncePerChunk ==
    LET progress == SelectSeq(ievents, LAMBDA e : e.kind = "OnIngestProgress")
    IN  /\ Len(progress) = Len(ilocals.allNodes)
        /\ \A k \in 1..Len(progress) :
              /\ progress[k].CurrentDocumentIndex = ilocals.allNodes[k].doc
              /\ progress[k].CurrentChunkIndex = ilocals.allNodes[k].chunk
              /\ progress[k].TotalChunksInDoc > 0

\* C12: in an ingestion that returns nil, OnIngestStarted is called exactly
\* once, before any OnIngestProgress; OnIngestProgress is called once per
\* chunk, with TotalChunksInDoc > 0; OnIngestCompleted is called exactly
\* once, after the last progress event and after the Add of the vector
\* store; OnIngestError is never called (each for a handler that is set).
C12_SuccessfulIngestionCallbacks ==
    IngestSucceeded =>
        /\ "OnIngestStarted" \in Callbacks =>
              /\ Cardinality(eventsOf("OnIngestStarted")) = 1
              /\ \A j \in eventsOf("OnIngestStarted"), k \in eventsOf("OnIngestProgress") : j < k
        /\ "OnIngestProgress" \in Callbacks => progressOncePerChunk
        /\ "OnIngestCompleted" \in Callbacks =>
              /\ Cardinality(eventsOf("OnIngestCompleted")) = 1
              /\ \A j \in eventsOf("OnIngestCompleted"),
                    k \in eventsOf("OnIngestProgress") \cup eventsOf("Add") : k < j
        /\ eventsOf("OnIngestError") = {}

\* an ingestion of two documents with every handler set returned nil after
\* three chunks or more went through the embedder and the Add
C12_Witness ==
    /\ IngestSucceeded
    /\ Callbacks = CallbackNames
    /\ ilocals.totalDocs >= 2
    /\ Len(ilocals.allNodes) >= 3
    /\ eventsOf("Add") # {}
    /\ Cardinality(eventsOf("OnIngestProgress")) >= 3

(***************************************************************************)
(* Properties of the http Client.                                          *)
(***************************************************************************)
\* every getClient call that has returned, returned the one http.Client
allReturnTheOne ==
    \A g \in Goroutines :
        gret[g].returned =>
            /\ created = 1
            /\ gret[g].getClient # NoClient
            /\ gret[g].getClient = cclient

\* an http.Client is created with the timeout the Client has at that moment
createdWithTimeout ==
    created' # created => cclient' = [id |-> created', Timeout |-> ctimeout]

\* the client field is written once: the http.Client and its Timeout stay
httpClientStays == cclient # NoClient => cclient' = cclient

\* C13: however the getClient calls of the goroutines interleave, exactly
\* one http.Client is created, every call, concurrent or later, returns
\* that same non-nil instance, and its Timeout is the timeout the Client
\* had when it was created.
C13_OneClientForAllCalls ==
    /\ [](created <= 1 /\ allReturnTheOne)
    /\ [][createdWithTimeout /\ httpClientStays]_vars

\* two getClient calls that both began before the http.Client existed have
\* both returned it, its Timeout one that WithTimeout had set
C13_Witness ==
    /\ \A g \in Goroutines :
          /\ gcall[g].op = "getClient"
          /\ ~gcall[g].clientAtCall
          /\ gpc[g] = "idle"
          /\ gret[g].returned
          /\ gret[g].getClient.id = 1
    /\ cclient.Timeout # DefaultTimeout

\* the timeout is written only by a WithTimeout call whose test found no
\* http.Client, and it becomes the argument of that call
timeoutSetByCallBeforeCreation ==
    ctimeout' # ctimeout =>
        \E g \in Goroutines :
            /\ gpc[g] = "set"
            /\ gpc'[g] = "idle"
            /\ gcall[g].op = "WithTimeout"
            /\ ~gcall[g].clientAtCall
            /\ ctimeout' = gcall[g].arg

\* a WithTimeout call that returns has the timeout set and returns the
\* Client it was called on
withTimeoutReturnsSelf ==
    \A g \in Goroutines :
        (gpc[g] = "set" /\ gpc'[g] = "idle") =>
            /\ ctimeout' = gcall[g].arg
            /\ gret'[g].WithTimeout = ClientSelf

\* a WithTimeout call made when the http.Client exists has returned the
\* Client it was called on and has nothing left to do
callAfterCreationReturned ==
    \A g \in Goroutines :
        (gcall[g].op = "WithTimeout" /\ gcall[g].clientAtCall) =>
            /\ gpc[g] = "idle"
            /\ gret[g].WithTimeout = ClientSelf

\* C14: WithTimeout sets the timeout only when it finds that the
\* http.Client has not been created; a call made after getClient has
\* created it leaves Client.timeout and the http.Client's Timeout
\* unchanged; in both cases the call returns the Client it was called on.
C14_WithTimeoutOnlyBeforeCreation ==
    /\ []callAfterCreationReturned
    /\ [][timeoutSetByCallBeforeCreation /\ withTimeoutReturnsSelf /\ httpClientStays]_vars

\* WithTimeout set a timeout, getClient created the http.Client with it, and
\* a later WithTimeout call with another timeout returned without effect
C14_Witness ==
    /\ cclient # NoClient
    /\ ctimeout # DefaultTimeout
    /\ cclient.Timeout = ctimeout
    /\ \E g \in Goroutines :
          /\ gcall[g].op = "WithTimeout"
          /\ gcall[g].clientAtCall
          /\ gcall[g].arg # ctimeout
          /\ gpc[g] = "idle"
          /\ gret[g].WithTimeout = ClientSelf

(***************************************************************************)
(* Properties of OptionalConfig.GetConfig.                                 *)
(***************************************************************************)
\* the configuration the caller gave: the one element of the
\* OptionalConfig; none when it has no element or several
explicitConfig == IF Len(given) = 1 THEN given[1] ELSE zeroLLMConfig

\* the first of the values that is not the empty string, the empty string
\* when there is none
RECURSIVE firstSet(_)
firstSet(values) ==
    IF values = <<>> THEN EmptyString
    ELSE IF Head(values) # EmptyString THEN Head(values)
    ELSE firstSet(Tail(values))

\* the default URL of a provider as the claim names it
defaultUrlOf(provider) ==
    IF provider = <<"openai">> THEN <<"https://api.openai.com/v1">>
    ELSE IF provider = <<"ollama">> THEN <<"http://localhost:11434">>
    ELSE EmptyString

\* the environment variable <PROVIDER>_<suffix> of the call
envOf(suffix) ==
    IF cfgProvider = <<"openai">> THEN environ[<<"OPENAI", suffix>>]
    ELSE IF cfgProvider = <<"ollama">> THEN environ[<<"OLLAMA", suffix>>]
    ELSE environ[<<"UNKNOWN", suffix>>]

C16_ZeroArgumentsGiveDefaults ==
    (newCall.made /\ newCall.chunkSize = 0 /\ newCall.chunkOverlap = 0
        /\ newCall.tokenizer = Nil) =>
            /\ newCall.returned.ChunkSize = 1024
            /\ newCall.returned.ChunkOverlap = 200
            /\ newCall.returned.Separator = <<" ">>
            /\ newCall.returned.ParagraphSeparator = <<"\n", "\n", "\n">>
            /\ ChunkSize = newCall.returned.ChunkSize
            /\ ChunkOverlap = newCall.returned.ChunkOverlap

(***************************************************************************)
(* Termination of merge.                                                   *)
(***************************************************************************)
inMergeLoop(p) == pc[p] = "merge" /\ pc'[p] = "merge"

\* the step is a closeChunk: a chunk is emitted, the leaf is still pending
closesChunk(p) ==
    /\ inMergeLoop(p)
    /\ Len(acc'[p].chunks) = Len(acc[p].chunks) + 1

\* the step appends the pending leaf: the leaf index advances
appendsLeaf(p) ==
    /\ inMergeLoop(p)
    /\ acc'[p].splitIdx = acc[p].splitIdx + 1
    /\ acc'[p].chunks = acc[p].chunks
    /\ lastItem(acc'[p].curChunk).idx = acc'[p].splitIdx

\* the step before was a closeChunk
justClosed(p) == pc[p] = "merge" /\ acc[p].newChunk /\ Len(acc[p].chunks) > 0

\* a closeChunk leaves the leaf index where it is and opens a new chunk;
\* the step after a closeChunk appends the pending leaf
closeThenAppend ==
    \A p \in Procs :
        /\ closesChunk(p) => (acc'[p].splitIdx = acc[p].splitIdx /\ justClosed(p)')
        /\ (justClosed(p) /\ acc'[p] # acc[p]) => appendsLeaf(p)

\* C17: merge terminates for every leaf list whose leaves fit ChunkSize and
\* every ChunkOverlap >= 0, ChunkOverlap >= ChunkSize included: every
\* closeChunk is followed by the append of the pending leaf before any
\* further closeChunk, so the leaf index advances between two closes and a
\* call that entered merge returns.
C17_MergeTerminates ==
    /\ [][closeThenAppend]_vars
    /\ [](pc[1] = "merge" => Len(acc[1].chunks) <= acc[1].splitIdx)
    /\ (pc[1] = "merge") ~> (pc[1] = "done")

\* a call on a splitter with ChunkOverlap >= ChunkSize returned after merge
\* closed three chunks or more, the overlap evicted every time
C17_Witness ==
    /\ Returned(1)
    /\ ChunkOverlap >= ChunkSize
    /\ Len(acc[1].chunkItems) >= 4
    /\ \A i \in 1..(Len(acc[1].chunkItems) - 1) : overlapDropped(acc[1], i)

(***************************************************************************)
(* Termination of split.                                                   *)
(***************************************************************************)
\* the candidates split descends into: those that do not fit chunkSize
recursedInto(tok, fragment, chunkSize) ==
    LET r == getSplitsByFns(fragment)
    IN  {r.splits[i] : i \in {j \in 1..Len(r.splits) :
                                 getTokenSize(tok, r.splits[j]) > chunkSize}}

\* C18: split terminates on every input: a fragment that does not fit is
\* cut into candidates, and every candidate split is called on again is
\* strictly shorter than the fragment, so the call returns.
C18_SplitTerminates ==
    \A p \in Procs :
        pc[p] # "idle" =>
            /\ pc[p] # "stack_overflow"
            /\ getTokenSize(Tokenizer, text[p]) > ChunkSize =>
                   \A piece \in recursedInto(Tokenizer, text[p], ChunkSize) :
                       Len(piece) < Len(text[p])

(***************************************************************************)
(* The order of the split strategies.                                      *)
(***************************************************************************)
\* what each strategy yields for a fragment, in the order of initSplitFns
primaryCandidates(fragment) ==
    <<SplitBySep(DefaultParagraphSep, fragment), StrategySplit(fragment)>>

fallbackCandidates(fragment) ==
    <<SplitByRegex(fragment), SplitBySep(DefaultSeparator, fragment), SplitByChar(fragment)>>

\* index of the first strategy that yields more than one candidate, 0 if none
firstWithMany(candidates) ==
    LET many == {i \in 1..Len(candidates) : Len(candidates[i]) > 1}
    IN  IF many = {} THEN 0 ELSE CHOOSE i \in many : \A j \in many : i <= j

\* the contiguous fragments of a text
fragmentsOf(t) == {SubSeq(t, i, j) : i \in 1..(Len(t) + 1), j \in 0..Len(t)}

strategyOrderKept(fragment) ==
    LET r == getSplitsByFns(fragment)
        primary == firstWithMany(primaryCandidates(fragment))
        fallback == firstWithMany(fallbackCandidates(fragment))
    IN  /\ primary # 0 =>
               (r.isSentence /\ r.splits = primaryCandidates(fragment)[primary])
        /\ (primary = 0 /\ fallback # 0) =>
               (~r.isSentence /\ r.splits = fallbackCandidates(fragment)[fallback])

suffixOf(items, k) == SubSeq(items, Len(items) - k + 1, Len(items))

\* the longest suffix of items whose sizes add up to budget at most
longestSuffixWithin(items, budget) ==
    LET within == {k \in 0..Len(items) : itemsLen(suffixOf(items, k)) <= budget}
    IN  suffixOf(items, CHOOSE k \in within : \A j \in within : j <= k)

\* right after closeChunk: the accumulator is the longest suffix of the
\* closed chunk within ChunkOverlap, and curChunkLen is its total
overlapIsLongestSuffix(p) ==
    /\ acc[p].lastChunk = lastItem(acc[p].chunkItems)
    /\ acc[p].curChunk = longestSuffixWithin(acc[p].lastChunk, ChunkOverlap)
    /\ acc[p].curChunkLen = itemsLen(acc[p].curChunk)
    /\ lastItem(acc[p].lastChunk).len > ChunkOverlap => acc[p].curChunk = <<>>

\* C20 as stated: right after closeChunk the accumulator holds the longest
\* suffix of the closed chunk's leaves whose total size is at most
\* ChunkOverlap, in order, and curChunkLen is that total; with
\* ChunkOverlap = 0 or a last leaf larger than ChunkOverlap it is empty.
C20_OverlapIsLongestSuffix ==
    \A p \in Procs :
        justClosed(p) =>
            /\ overlapIsLongestSuffix(p)
            /\ ChunkOverlap = 0 => acc[p].curChunk = <<>>

\* C20 amended: right after closeChunk the accumulator holds the longest
\* suffix of the closed chunk's leaves whose total size is at most
\* ChunkOverlap, in order, and curChunkLen is that total; with a last leaf
\* larger than ChunkOverlap it is empty, and with ChunkOverlap = 0 it holds
\* the trailing leaves of size 0 only (none when the last leaf has a
\* positive size).
C20_OverlapIsLongestSuffixOrZeroSized ==
    \A p \in Procs :
        justClosed(p) =>
            /\ overlapIsLongestSuffix(p)
            /\ ChunkOverlap = 0 =>
                   \A i \in 1..Len(acc[p].curChunk) : acc[p].curChunk[i].len = 0

\* closeChunk has just carried over two leaves, of positive total size, in
\* a call where an earlier chunk begins with a proper, non-empty part of
\* the chunk before it
C20_Witness ==
    /\ justClosed(1)
    /\ Len(acc[1].curChunk) >= 2
    /\ acc[1].curChunkLen > 0
    /\ \E i \in 1..(Len(acc[1].chunkItems) - 1) :
          LET carried == inherited(acc[1].chunkItems[i], acc[1].chunkItems[i + 1])
          IN  carried # <<>> /\ Len(carried) < Len(acc[1].chunkItems[i])

(***************************************************************************)
(* Eviction of the inherited overlap.                                      *)
(***************************************************************************)
dropFront(items, k) == SubSeq(items, k + 1, Len(items))

\* the fewest leaves to evict from the front of items for a leaf of
\* tokenSize to fit ChunkSize; all of them if it never fits
fewestEvictions(items, tokenSize) ==
    LET enough == {k \in 0..Len(items) :
                      itemsLen(dropFront(items, k)) + tokenSize <= ChunkSize}
    IN  IF enough = {} THEN Len(items)
        ELSE CHOOSE k \in enough : \A j \in enough : k <= j

\* the step after a closeChunk: the accumulator becomes what is left of the
\* overlap after the fewest evictions, then the pending leaf
evictsFewest(p) ==
    LET leaf == splits[p][acc[p].splitIdx + 1]
        kept == dropFront(acc[p].curChunk, fewestEvictions(acc[p].curChunk, leaf.tokenSize))
    IN  /\ acc'[p].curChunk =
               Append(kept, bufItem(leaf.text, leaf.tokenSize, acc[p].splitIdx + 1))
        /\ acc'[p].curChunkLen = itemsLen(acc'[p].curChunk)
        /\ isItemSuffix(kept, acc[p].lastChunk)
        /\ acc'[p].splitIdx = acc[p].splitIdx + 1

\* C21: when the first leaf after a close does not fit with the inherited
\* overlap, merge evicts overlap leaves from the front and stops as soon as
\* the leaf fits or nothing is left: the fewest leaves are evicted, what is
\* kept is still a suffix of the previous chunk, and the leaf is appended.
C21_EvictsFewestOverlapLeaves ==
    [][\A p \in Procs : (justClosed(p) /\ acc'[p] # acc[p]) => evictsFewest(p)]_vars

\* the accumulator after an eviction that dropped some of the overlap
\* closeChunk had copied and kept the rest before the new leaf
C21_Witness ==
    /\ pc[1] = "merge"
    /\ ~acc[1].newChunk
    /\ Len(acc[1].chunkItems) >= 1
    /\ LET prev == lastItem(acc[1].chunkItems)
           kept == inherited(prev, acc[1].curChunk)
       IN  /\ kept # <<>>
           /\ Len(kept) < Len(longestSuffixWithin(prev, ChunkOverlap))
           /\ Len(acc[1].curChunk) = Len(kept) + 1

(***************************************************************************)
(* Chunks as runs of the leaf list.                                        *)
(***************************************************************************)
firstIdx(items) == items[1].idx
lastIdx(items) == items[Len(items)].idx

\* items is the run firstIdx..lastIdx of leaves, texts and sizes included
isLeafRun(items, leaves) ==
    /\ items # <<>>
    /\ firstIdx(items) >= 1
    /\ lastIdx(items) <= Len(leaves)
    /\ \A j \in 1..Len(items) :
          /\ items[j].idx = firstIdx(items) + j - 1
          /\ items[j].text = leaves[items[j].idx].text
          /\ items[j].len = leaves[items[j].idx].tokenSize

chunksAreLeafRuns(m, leaves) ==
    /\ Len(m.chunks) = Len(m.chunkItems)
    /\ \A i \in 1..Len(m.chunkItems) :
          /\ isLeafRun(m.chunkItems[i], leaves)
          /\ m.chunks[i] = Concat([j \in 1..Len(m.chunkItems[i]) |->
                                     leaves[firstIdx(m.chunkItems[i]) + j - 1].text])
    /\ \A i \in 1..(Len(m.chunkItems) - 1) :
          /\ firstIdx(m.chunkItems[i]) < firstIdx(m.chunkItems[i + 1])
          /\ lastIdx(m.chunkItems[i]) < lastIdx(m.chunkItems[i + 1])

everyLeafEmitted(m, leaves) ==
    \A k \in 1..Len(leaves) :
        \E i \in 1..Len(m.chunkItems) :
            firstIdx(m.chunkItems[i]) <= k /\ k <= lastIdx(m.chunkItems[i])

\* C22: every chunk merge emits is the concatenation of a contiguous run of
\* the leaf list, the first and last leaf indices of successive chunks
\* increase strictly, and when merge returns every leaf is in one emitted
\* chunk at least.
C22_ChunksAreContiguousLeafRuns ==
    \A p \in Procs :
        /\ pc[p] \in {"merge", "done"} => chunksAreLeafRuns(acc[p], splits[p])
        /\ Returned(p) => everyLeafEmitted(acc[p], splits[p])

\* a returned call with three chunks or more, two of which share a leaf,
\* and a last chunk that holds an inherited leaf and a new one
C22_Witness ==
    /\ Returned(1)
    /\ Len(acc[1].chunkItems) >= 3
    /\ \E i \in 1..(Len(acc[1].chunkItems) - 1) :
          firstIdx(acc[1].chunkItems[i + 1]) <= lastIdx(acc[1].chunkItems[i])
    /\ Len(lastItem(acc[1].chunkItems)) >= 2

(***************************************************************************)
(* No empty chunk from ParagraphSplitter.SplitText.                        *)
(***************************************************************************)
\* the text has no character but whitespace: no paragraph of it is non-blank
blankText(t) == \A i \in 1..Len(t) : IsSpace(t[i])

inParagraphLoop == ppc \in {"loop", "sub", "done"} /\ ~blankText(ptext)

\* C23: ParagraphSplitter.SplitText never returns an empty chunk: the
\* paragraphs it packs are trimmed and none is blank, no emitted chunk is
\* empty, and a text that is empty or has no non-blank paragraph returns
\* the empty sequence.
C23_NoEmptyParagraphChunk ==
    /\ inParagraphLoop =>
          /\ \A i \in 1..Len(plocals.paragraphs) :
                /\ plocals.paragraphs[i] # <<>>
                /\ TrimSpace(plocals.paragraphs[i]) = plocals.paragraphs[i]
          /\ \A i \in 1..Len(plocals.chunks) : plocals.chunks[i] # <<>>
    /\ ParaReturned =>
          /\ \A i \in 1..Len(presult) : presult[i] # <<>>
          /\ blankText(ptext) <=> presult = <<>>

\* a returned call on a text with two non-blank paragraphs, a blank one
\* that was discarded, and a space
C23_Witness ==
    /\ ParaReturned
    /\ Len(presult) >= 2
    /\ Len(plocals.paragraphs) = 2
    /\ Len(StringsSplit(ParagraphSeparator, ptext, 1, 1)) >= 3
    /\ \E i \in 1..Len(ptext) : ptext[i] = " "

(***************************************************************************)
(* merge and the isSentence tags.                                          *)
(***************************************************************************)
\* the leaf list with the tags replaced by tags
retag(leaves, tags) ==
    [i \in 1..Len(leaves) |-> [leaves[i] EXCEPT !.isSentence = tags[i]]]

tagsOf(leaves) == [1..Len(leaves) -> BOOLEAN]

\* the iteration at hand reaches the test of the append with a leaf that
\* does not fit and an accumulator that was not just opened
reachesFinalElse(m, leaves) ==
    LET curSplit == leaves[m.splitIdx + 1]
        closesFirst == m.curChunkLen + curSplit.tokenSize > ChunkSize /\ ~m.newChunk
        ev == IF m.newChunk /\ m.curChunkLen + curSplit.tokenSize > ChunkSize
                  THEN evictFront(m.curChunk, m.curChunkLen, curSplit.tokenSize, ChunkSize)
                  ELSE [curChunk |-> m.curChunk, curChunkLen |-> m.curChunkLen]
    IN  /\ ~closesFirst
        /\ ev.curChunkLen + curSplit.tokenSize > ChunkSize
        /\ ~m.newChunk

overlapOnly(i) ==
    /\ plocals.emitted[i].inherit
    /\ Len(plocals.emitted[i].paras) = 1

\* C25: every chunk ParagraphSplitter.SplitText emits holds one paragraph
\* or hard-split piece at least that no earlier chunk holds: no chunk is
\* an overlap paragraph alone, also when an oversized paragraph follows a
\* non-empty current chunk.
C25_NoOverlapOnlyChunk ==
    \A i \in 1..Len(plocals.emitted) : ~overlapOnly(i)

(***************************************************************************)
(* currentSize and currentChunk.                                           *)
(***************************************************************************)
\* the call is at the start of an iteration of the paragraph loop or of
\* the loop over the sub-parts (or at the exit of the paragraph loop)
atLoopHead == ppc \in {"loop", "sub"}

\* C26: at the start of every iteration of the paragraph loop and of the
\* sub-part loop, currentSize is the byte length of currentChunk joined
\* with the separator, 0 when currentChunk is empty.
C26_CurrentSizeIsJoinedLength ==
    atLoopHead =>
        plocals.currentSize = ByteLen(StringsJoin(plocals.currentChunk, ParagraphSeparator))

\* the sub-part loop is at a sub-part with a current chunk of two units,
\* the second one a sub-part that was added beside the overlap paragraph
C26_Witness ==
    /\ ppc = "sub"
    /\ plocals.nextSub >= 2
    /\ plocals.nextSub <= Len(plocals.subParts)
    /\ plocals.inherit
    /\ Len(plocals.currentChunk) = 2
    /\ plocals.currentChunk[2] = plocals.subParts[plocals.nextSub - 1]
    /\ Len(plocals.chunks) = 1

(***************************************************************************)
(* No content lost by ParagraphSplitter.SplitText.                         *)
(***************************************************************************)
RECURSIVE newUnits(_)
\* the paragraphs and pieces of the emitted chunks, the leading overlap
\* paragraph of a chunk left out
newUnits(emitted) ==
    IF emitted = <<>> THEN <<>>
    ELSE (IF Head(emitted).inherit THEN Tail(Head(emitted).paras) ELSE Head(emitted).paras)
         \o newUnits(Tail(emitted))

RECURSIVE reassembles(_, _)
\* units is the sequence paragraphs, each paragraph standing as it is or,
\* when it is oversized, as pieces that concatenate to it
reassembles(units, paragraphs) ==
    IF paragraphs = <<>> THEN units = <<>>
    ELSE \E k \in 1..Len(units) :
            /\ Concat(SubSeq(units, 1, k)) = Head(paragraphs)
            /\ k > 1 => ByteLen(Head(paragraphs)) > MaxChunkSize
            /\ \A j \in 1..k : units[j] # <<>>
            /\ reassembles(SubSeq(units, k + 1, Len(units)), Tail(paragraphs))

\* what is left out of a chunk is the last paragraph of the chunk before it
leadingIsOverlap(emitted) ==
    \A i \in 1..Len(emitted) :
        emitted[i].inherit =>
            /\ i > 1
            /\ emitted[i].paras[1] = lastItem(emitted[i - 1].paras)

\* C27: ParagraphSplitter.SplitText loses no content and keeps order: the
\* chunks it returns, each without its leading overlap paragraph, and the
\* pieces of each oversized paragraph concatenated, are the trimmed
\* non-blank paragraphs of the input, each once and in input order.
C27_ParagraphsKeptOnceInOrder ==
    ParaReturned =>
        /\ Len(presult) = Len(plocals.emitted)
        /\ \A i \in 1..Len(presult) :
              presult[i] = StringsJoin(plocals.emitted[i].paras, ParagraphSeparator)
        /\ leadingIsOverlap(plocals.emitted)
        /\ reassembles(newUnits(plocals.emitted), trimmedParagraphs(ptext))

\* a returned call on a text with a paragraph that fits and an oversized
\* one cut into pieces, with a chunk that begins with an overlap paragraph
C27_Witness ==
    /\ ParaReturned
    /\ Len(trimmedParagraphs(ptext)) >= 2
    /\ \E i \in 1..Len(trimmedParagraphs(ptext)) :
          ByteLen(trimmedParagraphs(ptext)[i]) > MaxChunkSize
    /\ Len(newUnits(plocals.emitted)) > Len(trimmedParagraphs(ptext))
    /\ \E i \in 1..Len(plocals.emitted) :
          plocals.emitted[i].inherit /\ Len(plocals.emitted[i].paras) >= 2

(***************************************************************************)
(* Failures of ingestDocuments.                                            *)
(***************************************************************************)
EmbeddingFailed == ipc = "done" /\ ireturn = "failed to get embedding"
AddFailed == ipc = "done" /\ ireturn = "failed to add nodes to vector store"

\* the vector store was called in an ingestion whose embedding call failed
addAfterFailedEmbedding ==
    EmbeddingFailed /\ eventsOf("Add") # {}

\* C28: when an embedding call or the Add of the vector store fails in
\* ingestDocuments, OnIngestError (if set) is called exactly once, with the
\* error the call returns, OnIngestCompleted is never called, and after a
\* failed embedding call the Add of the vector store is not called and no
\* node of the ingestion is stored.
C28_FailedIngestionCallbacks ==
    (EmbeddingFailed \/ AddFailed) =>
        /\ "OnIngestError" \in Callbacks =>
              /\ Cardinality(eventsOf("OnIngestError")) = 1
              /\ \A k \in eventsOf("OnIngestError") :
                    ievents[k].err = ireturn /\ k = Len(ievents)
        /\ "OnIngestError" \notin Callbacks => eventsOf("OnIngestError") = {}
        /\ eventsOf("OnIngestCompleted") = {}
        /\ ~addAfterFailedEmbedding
        /\ \A v \in VectorStores : stored[v] = <<>>
        /\ AddFailed => Cardinality(eventsOf("Add")) = 1

\* with every handler set, the embedding call of a later chunk failed after
\* nodes had been made of earlier chunks
C28_Witness ==
    /\ EmbeddingFailed
    /\ Callbacks = CallbackNames
    /\ Len(ilocals.allNodes) >= 2
    /\ Cardinality(eventsOf("Embeddings")) = Len(ilocals.allNodes) + 1

(***************************************************************************)
(* What ingestion embeds and stores.                                       *)
(***************************************************************************)
\* C29: ingestion never embeds or stores a chunk with empty text, whatever
\* the text of the document, the empty string included: every content
\* handed to the embedder, every node made and every node stored has a
\* non-empty text.
C29_NoEmptyChunkIngested ==
    /\ \A k \in eventsOf("Embeddings") : ievents[k].content # <<>>
    /\ \A k \in 1..Len(ilocals.allNodes) : ilocals.allNodes[k].text # <<>>
    /\ \A v \in VectorStores : \A k \in 1..Len(stored[v]) : stored[v][k].text # <<>>

(***************************************************************************)
(* The components Query uses.                                              *)
(***************************************************************************)
\* C30: after any sequence of WithEmbedding, WithLLM, WithVectorStore,
\* Ingest and Query calls, the embedder and the vector store of the
\* retriever a Query call uses are the ones set on the system when the
\* call is made, the ones ingestion uses; a component injected after the
\* first bootstrap is used by the queries that follow.
C30_QueryUsesCurrentComponents ==
    \A k \in eventsOf("Retrieve") :
        /\ ievents[k].embedder = ievents[k].systemEmbedder
        /\ ievents[k].vectorStore = ievents[k].systemVectorStore

=============================================================================
